---- MODULE Spec2Model ----
(***************************************************************************)
(* Model of the rate-governed, retrying execution core of discord-notifier *)
(*   RetryHandler      src/src/utils/RetryHandler.ts                       *)
(*   RateLimitService  src/src/services/RateLimitService.ts                *)
(* Time is in integer milliseconds (Date.now()).  Token counts are kept in *)
(* thousandths of a token, so that (elapsed / 1000) * refillRate is the    *)
(* integer elapsed * refillRate and one token is Token == 1000.            *)
(***************************************************************************)
EXTENDS Integers, Sequences, FiniteSets, Bags, TLC

(***************************************************************************)
(* Bounds of the model                                                     *)
(***************************************************************************)
MaxRetriesBound == 3
NExec == 2
MaxAttemptArg == 5

MaxTime == 600
MaxSingles == 1
MaxBursts == 1
MaxSignals == 2
MaxResets == 1
NAcq == 2
MaxAdd == 3
MaxText == 5
MaxLimit == 6
MaxBinds == 3
MaxRegistrations == 3

Execs == 1..NExec

(***************************************************************************)
(* JavaScript values thrown or returned by an operation.  A property of an *)
(* object is absent, a number or a string.                                 *)
(***************************************************************************)
Absent == [type |-> "undefined", num |-> 0, str |-> ""]
Num(n) == [type |-> "number", num |-> n, str |-> ""]
Str(s) == [type |-> "string", num |-> 0, str |-> s]

StatusValues == {Absent, Num(403), Num(503), Str("503")}
CodeValues == {Absent, Num(403), Num(503), Str("ECONNRESET"), Str("EAI_AGAIN"), Str("EPIPE")}

\* kind: what the value is (typeof / instanceof); ident: which throw or
\* return produced it (0 for a value not produced by an invocation).
JSValue(k, s, sc, c, i) == [kind |-> k, status |-> s, statusCode |-> sc, code |-> c, ident |-> i]

JSNull == JSValue("null", Absent, Absent, Absent, 0)
NoValue == JSValue("undefined", Absent, Absent, Absent, 0)
SyntheticError == JSValue("MaxRetriesExceeded", Absent, Absent, Absent, 0)

ErrorKinds == {"null", "string", "function", "object", "RateLimitError"}

ErrorValues ==
    {JSValue(k, s, sc, c, 0) : k \in {"function", "object", "RateLimitError"},
                               s \in StatusValues, sc \in StatusValues, c \in CodeValues}
    \cup {JSValue("null", Absent, Absent, Absent, 0), JSValue("string", Absent, Absent, Absent, 0)}

\* The failures an operation under execute raises in the model: one of each
\* class the classifier distinguishes.
OpErrors ==
    { JSValue("RateLimitError", Absent, Absent, Absent, 0),
      JSValue("object", Absent, Absent, Str("ECONNRESET"), 0),
      JSValue("object", Num(503), Absent, Absent, 0),
      JSValue("object", Num(403), Absent, Absent, 0),
      JSValue("null", Absent, Absent, Absent, 0) }

OpResult == JSValue("result", Absent, Absent, Absent, 0)

WithIdent(v, i) == [v EXCEPT !.ident = i]

(***************************************************************************)
(* RetryHandler configuration                                              *)
(***************************************************************************)
DEFAULT_RETRYABLE_CODES == {429, 500, 502, 503, 504}
BaseDelays == {10, 1000}
RetryableCodeSets == {DEFAULT_RETRYABLE_CODES, {500}}

VARIABLES
    maxRetries, baseDelay, retryableCodes,      \* RetryHandler fields
    execPc, attempt, lastError,                 \* one execute call each
    invocations, sleeps, lastSettled, outcome,  \* what each execute call did
    clsError, clsResult, delayArg, delayResult, \* direct calls of the pure methods
    now,                                        \* Date.now()
    globalBucket, channelBuckets,               \* RateLimitService fields
    callers,                                    \* bag of suspended acquireToken calls
    grants,                                     \* per bucket, the times of its grants
    afterRefill,                                \* per bucket, tokens right after its last refill
    cooldown,                                   \* per channel, the last handleRateLimit
    issued,                                     \* calls made so far, by kind
    sync,                                       \* the synchronous caller loop in progress
    msgs,                                       \* MessageService calls
    interactions,                               \* InteractionService.handleInteraction calls
    acquisitions,                               \* acquireToken calls, in the order they were made
    errorPost,                                  \* DiscordNotifier.postError, one call
    actionRow,                                  \* an ActionRowBuilder and the last call on it
    truncated,                                  \* the last call of TextTruncator.truncate
    dispatch,                                   \* InteractionService handlers and listeners
    embed                                       \* the MessageOptions of a sendMessage call

retryVars == <<execPc, attempt, lastError, invocations, sleeps, lastSettled, outcome>>
configVars == <<maxRetries, baseDelay, retryableCodes>>
pureVars == <<clsError, clsResult, delayArg, delayResult>>
rateVars == <<now, globalBucket, channelBuckets, callers, grants, afterRefill, cooldown, issued, sync>>
serviceVars == <<dispatch, embed>>
clientVars == <<errorPost, actionRow, truncated, serviceVars>>
appVars == <<msgs, interactions, acquisitions, clientVars>>
vars == <<configVars, retryVars, pureVars, rateVars, appVars>>

(***************************************************************************)
(* RetryHandler: pure methods                                              *)
(***************************************************************************)
RECURSIVE MathPow(_, _)
MathPow(b, e) == IF e = 0 THEN 1 ELSE b * MathPow(b, e - 1)

\* mutant: linear instead of exponential backoff
calculateDelay_Linear(base, att) == base * (att + 1)

calculateDelay(base, att) == base * MathPow(2, att)

TypeofObject(error) ==
    error.kind \in {"object", "RateLimitError", "PermissionError", "ChannelNotFoundError"}

networkErrorCodes == {"ECONNRESET", "ECONNREFUSED", "ETIMEDOUT", "ENOTFOUND", "EAI_AGAIN"}

isNetworkError(error) ==
    IF error.kind = "null" \/ ~TypeofObject(error) THEN FALSE
    ELSE IF error.code.type = "string" THEN error.code.str \in networkErrorCodes
    ELSE FALSE

isHttpError(error) ==
    /\ error.kind # "null"
    /\ TypeofObject(error)
    /\ (error.status # Absent \/ error.statusCode # Absent \/ error.code # Absent)

\* mutant: the code property is looked at before status and statusCode
extractStatusCode_CodeFirst(error) ==
    IF error.kind = "null" \/ ~TypeofObject(error) THEN Absent
    ELSE IF error.code.type = "number" THEN error.code
    ELSE IF error.status.type = "number" THEN error.status
    ELSE IF error.statusCode.type = "number" THEN error.statusCode
    ELSE Absent

\* number | null: Absent stands for null
extractStatusCode(error) ==
    IF error.kind = "null" \/ ~TypeofObject(error) THEN Absent
    ELSE IF error.status.type = "number" THEN error.status
    ELSE IF error.statusCode.type = "number" THEN error.statusCode
    ELSE IF error.code.type = "number" THEN error.code
    ELSE Absent

\* mutant: every failure is treated as retryable
isRetryableError_Always(error, codes) == TRUE

isRetryableError(error, codes) ==
    IF error.kind = "RateLimitError" THEN TRUE
    ELSE IF isNetworkError(error) THEN TRUE
    ELSE IF isHttpError(error)
         THEN LET statusCode == extractStatusCode(error)
              IN statusCode # Absent /\ statusCode.num \in codes
    ELSE FALSE

(***************************************************************************)
(* RetryHandler.execute, one action per stretch between suspension points  *)
(***************************************************************************)
Pending == [state |-> "pending", value |-> NoValue]
Settled(s, v) == [state |-> s, value |-> v]

RetryConfigInit ==
    /\ maxRetries \in 0..MaxRetriesBound
    /\ baseDelay \in BaseDelays
    /\ retryableCodes \in RetryableCodeSets

RetryInit ==
    /\ execPc = [e \in Execs |-> "idle"]
    /\ attempt = [e \in Execs |-> 0]
    /\ lastError = [e \in Execs |-> NoValue]
    /\ invocations = [e \in Execs |-> 0]
    /\ sleeps = [e \in Execs |-> <<>>]
    /\ lastSettled = [e \in Execs |-> Pending]
    /\ outcome = [e \in Execs |-> Pending]

PureInit ==
    /\ clsError = NoValue
    /\ clsResult = FALSE
    /\ delayArg = -1
    /\ delayResult = 0

\* the throw after the loop: lastError ?? new Error('Max retries exceeded')
AfterLoopError(e) ==
    IF lastError[e].kind \in {"undefined", "null"} THEN SyntheticError ELSE lastError[e]

\* for (attempt = a; attempt <= maxRetries; ...) { return await operation() ...
LoopFrom(e, a) ==
    IF a <= maxRetries
    THEN /\ execPc' = [execPc EXCEPT ![e] = "invoking"]
         /\ invocations' = [invocations EXCEPT ![e] = @ + 1]
         /\ outcome' = outcome
    ELSE /\ execPc' = [execPc EXCEPT ![e] = "rejected"]
         /\ invocations' = invocations
         /\ outcome' = [outcome EXCEPT ![e] = Settled("rejected", AfterLoopError(e))]

Execute(e) ==
    /\ execPc[e] = "idle"
    /\ LoopFrom(e, 0)
    /\ UNCHANGED <<attempt, lastError, sleeps, lastSettled, configVars, appVars, pureVars, rateVars>>

\* mutant: the success value is replaced by a fresh value
OperationResolves_Transformed(e) ==
    /\ execPc[e] = "invoking"
    /\ lastSettled' = [lastSettled EXCEPT ![e] = Settled("resolved", WithIdent(OpResult, invocations[e]))]
    /\ outcome' = [outcome EXCEPT ![e] = Settled("resolved", OpResult)]
    /\ execPc' = [execPc EXCEPT ![e] = "resolved"]
    /\ UNCHANGED <<attempt, lastError, invocations, sleeps, configVars, appVars, pureVars, rateVars>>

OperationResolves(e) ==
    /\ execPc[e] = "invoking"
    /\ LET result == WithIdent(OpResult, invocations[e])
       IN /\ lastSettled' = [lastSettled EXCEPT ![e] = Settled("resolved", result)]
          /\ outcome' = [outcome EXCEPT ![e] = Settled("resolved", result)]
    /\ execPc' = [execPc EXCEPT ![e] = "resolved"]
    /\ UNCHANGED <<attempt, lastError, invocations, sleeps, configVars, appVars, pureVars, rateVars>>

\* the catch block of execute with the three places a slip could change
OperationRejectsWith(e, err, lastAttempt, thrown(_, _), delayOf(_)) ==
    /\ execPc[e] = "invoking"
    /\ LET error == WithIdent(err, invocations[e])
           isRetryable == isRetryableError(error, retryableCodes)
       IN /\ lastSettled' = [lastSettled EXCEPT ![e] = Settled("rejected", error)]
          /\ lastError' = [lastError EXCEPT ![e] = error]
          /\ IF ~isRetryable \/ attempt[e] = lastAttempt
             THEN /\ outcome' = [outcome EXCEPT ![e] = Settled("rejected", thrown(error, lastError[e]))]
                  /\ execPc' = [execPc EXCEPT ![e] = "rejected"]
                  /\ sleeps' = sleeps
             ELSE /\ sleeps' = [sleeps EXCEPT ![e] = Append(@, delayOf(attempt[e]))]
                  /\ execPc' = [execPc EXCEPT ![e] = "sleeping"]
                  /\ outcome' = outcome
    /\ UNCHANGED <<attempt, invocations, configVars, appVars, pureVars, rateVars>>

ThisError(error, previous) == error
PreviousError(error, previous) == IF previous = NoValue THEN error ELSE previous
DelayOfAttempt(a) == calculateDelay(baseDelay, a)
DelayOfNextAttempt(a) == calculateDelay(baseDelay, a + 1)

\* mutant: gives up one attempt early
OperationRejects_OffByOne(e, err) ==
    OperationRejectsWith(e, err, maxRetries - 1, ThisError, DelayOfAttempt)

\* mutant: rethrows the failure of the previous attempt
OperationRejects_Stale(e, err) ==
    OperationRejectsWith(e, err, maxRetries, PreviousError, DelayOfAttempt)

\* mutant: backs off by the delay of the next attempt
OperationRejects_DelayNext(e, err) ==
    OperationRejectsWith(e, err, maxRetries, ThisError, DelayOfNextAttempt)

OperationRejects(e, err) ==
    /\ execPc[e] = "invoking"
    /\ LET error == WithIdent(err, invocations[e])
           isRetryable == isRetryableError(error, retryableCodes)
       IN /\ lastSettled' = [lastSettled EXCEPT ![e] = Settled("rejected", error)]
          /\ lastError' = [lastError EXCEPT ![e] = error]
          /\ IF ~isRetryable \/ attempt[e] = maxRetries
             THEN /\ outcome' = [outcome EXCEPT ![e] = Settled("rejected", error)]
                  /\ execPc' = [execPc EXCEPT ![e] = "rejected"]
                  /\ sleeps' = sleeps
             ELSE /\ sleeps' = [sleeps EXCEPT ![e] = Append(@, calculateDelay(baseDelay, attempt[e]))]
                  /\ execPc' = [execPc EXCEPT ![e] = "sleeping"]
                  /\ outcome' = outcome
    /\ UNCHANGED <<attempt, invocations, configVars, appVars, pureVars, rateVars>>

\* mutant: the loop goes round without counting the attempt
SleepEnds_NoIncrement(e) ==
    /\ execPc[e] = "sleeping"
    /\ LoopFrom(e, attempt[e])
    /\ UNCHANGED <<attempt, lastError, sleeps, lastSettled, configVars, appVars, pureVars, rateVars>>

\* mutant: the attempt counter is a field shared by all execute calls
SleepEnds_SharedAttempt(e) ==
    /\ execPc[e] = "sleeping"
    /\ attempt' = [f \in Execs |-> attempt[f] + 1]
    /\ LoopFrom(e, attempt[e] + 1)
    /\ UNCHANGED <<lastError, sleeps, lastSettled, configVars, appVars, pureVars, rateVars>>

SleepEnds(e) ==
    /\ execPc[e] = "sleeping"
    /\ attempt' = [attempt EXCEPT ![e] = @ + 1]
    /\ LoopFrom(e, attempt[e] + 1)
    /\ UNCHANGED <<lastError, sleeps, lastSettled, configVars, appVars, pureVars, rateVars>>

RetryNext ==
    \/ \E e \in Execs : Execute(e)
    \/ \E e \in Execs : OperationResolves(e)
    \/ \E e \in Execs, err \in OpErrors : OperationRejects(e, err)
    \/ \E e \in Execs : SleepEnds(e)

\* every invocation of the operation terminates, by returning or by
\* throwing
OperationTerminates(e) ==
    \/ OperationResolves(e)
    \/ \E err \in OpErrors : OperationRejects(e, err)

\* operations terminate and the timers of the backoff sleeps fire
RetryFairness ==
    \A e \in Execs : WF_vars(OperationTerminates(e)) /\ WF_vars(SleepEnds(e))

(***************************************************************************)
(* RateLimitService: token buckets                                         *)
(***************************************************************************)
GLOBAL_CAPACITY == 50
GLOBAL_REFILL_RATE == 50
CHANNEL_CAPACITY == 5
CHANNEL_REFILL_RATE == 5

\* one token, in the unit of the tokens field (thousandths)
Token == 1000

Channels == {"c1", "c2"}
BucketIds == {"global"} \cup Channels
\* how many acquireToken calls a caller makes in one synchronous loop: one
\* more than a channel bucket holds, or one more than the global bucket holds
SmallLoop == CHANNEL_CAPACITY + 1
LargeLoop == GLOBAL_CAPACITY + 1
RetryAfters == {0, 300}
Ticks == {200}

Min(a, b) == IF a <= b THEN a ELSE b

NewBucket(cap, rate, t) ==
    [tokens |-> cap * Token, capacity |-> cap, refillRate |-> rate, lastRefill |-> t]

\* a bucket as reset() leaves it
FullBucket(bucket, t) ==
    [bucket EXCEPT !.tokens = bucket.capacity * Token, !.lastRefill = t]

\* mutant: refill without the cap at capacity
refillBucket_NoCap(bucket, t) ==
    [bucket EXCEPT !.tokens = bucket.tokens + (t - bucket.lastRefill) * bucket.refillRate,
                   !.lastRefill = t]

refillBucket(bucket, t) ==
    LET timeSinceLastRefill == t - bucket.lastRefill
        tokensToAdd == timeSinceLastRefill * bucket.refillRate
    IN [bucket EXCEPT !.tokens = Min(bucket.capacity * Token, bucket.tokens + tokensToAdd),
                      !.lastRefill = t]

\* mutant: no wait before the next try
calculateWaitTime_NoWait(bucket) == 0

calculateWaitTime(bucket) == (1000 + bucket.refillRate - 1) \div bucket.refillRate

\* mutant: a granted token is not taken out of the bucket
acquireFromBucket_NoDeduct(bucket, t) ==
    LET refilled == refillBucket(bucket, t)
    IN IF refilled.tokens >= Token
       THEN [bucket |-> refilled, granted |-> TRUE, seen |-> refilled.tokens]
       ELSE [bucket |-> refilled, granted |-> FALSE, seen |-> refilled.tokens]

\* mutant: any fraction of a token is enough for a grant
acquireFromBucket_PartialToken(bucket, t) ==
    LET refilled == refillBucket(bucket, t)
    IN IF refilled.tokens > 0
       THEN [bucket |-> [refilled EXCEPT !.tokens = @ - Token], granted |-> TRUE,
             seen |-> refilled.tokens]
       ELSE [bucket |-> refilled, granted |-> FALSE, seen |-> refilled.tokens]

\* acquireFromBucket up to its return or its sleep: the bucket afterwards,
\* whether the token was granted, and the tokens seen right after the refill
acquireFromBucket(bucket, t) ==
    LET refilled == refillBucket(bucket, t)
    IN IF refilled.tokens >= Token
       THEN [bucket |-> [refilled EXCEPT !.tokens = @ - Token], granted |-> TRUE,
             seen |-> refilled.tokens]
       ELSE [bucket |-> refilled, granted |-> FALSE, seen |-> refilled.tokens]

HasBucket(c) == c \in DOMAIN channelBuckets

\* mutant: a fresh bucket on every call
getOrCreateChannelBucket_AlwaysNew(c) ==
    NewBucket(CHANNEL_CAPACITY, CHANNEL_REFILL_RATE, now)

\* the bucket getOrCreateChannelBucket returns, and the map afterwards
getOrCreateChannelBucket(c) ==
    IF HasBucket(c) THEN channelBuckets[c]
    ELSE NewBucket(CHANNEL_CAPACITY, CHANNEL_REFILL_RATE, now)

SetBucket(c, bucket) ==
    [k \in DOMAIN channelBuckets \cup {c} |-> IF k = c THEN bucket ELSE channelBuckets[k]]

(***************************************************************************)
(* Suspended acquireToken calls.  pc is where the call waits:              *)
(*   "global_sleep"   in the sleep of acquireFromBucket(globalBucket)      *)
(*   "channel"        at the await of acquireToken, global token taken     *)
(*   "channel_sleep"  in the sleep of acquireFromBucket(channelBucket)     *)
(***************************************************************************)
Caller(pc, c, wakeAt) == [pc |-> pc, channelId |-> c, wakeAt |-> wakeAt]
Copies(x, n) == IF n = 0 THEN EmptyBag ELSE [y \in {x} |-> n]
One(x) == Copies(x, 1)
Waiting(k) == k \in BagToSet(callers)

(***************************************************************************)
(* The event loop.  A synchronous stretch runs to completion: while a      *)
(* caller loop has calls left nothing else runs (Idle).  The continuation  *)
(* of an await is a microtask and runs before any timer callback (Quiet).  *)
(* Expired timers fire before the next call from outside is handled and,   *)
(* the clock being coarse, within the tick in which they expire (Ready).   *)
(***************************************************************************)
NoLoop == [left |-> 0, channelId |-> "c1", spread |-> FALSE]
OtherChannel(c) == CHOOSE d \in Channels : d # c
Idle == sync.left = 0
NoContinuation == \A k \in BagToSet(callers) : k.pc # "channel"
Quiet == Idle /\ NoContinuation
Expired(k) == k.pc # "channel" /\ k.wakeAt <= now
NoExpiredTimer == \A k \in BagToSet(callers) : ~Expired(k)
Ready == Quiet /\ NoExpiredTimer

\* Suspended calls are kept without their order of arrival.  Steps of
\* calls on different channel buckets commute, and two calls on the same
\* bucket differ only in which of them is granted, so of the pending
\* continuations, and of the expired timers of calls sleeping on channel
\* buckets, one representative runs next: a call on the first channel
\* that has one, with the earliest deadline.  Timers of calls sleeping on
\* the global bucket (the shorter timers) run before those.
Rank == [c1 |-> 1, c2 |-> 2]
Before(k, j) ==
    \/ Rank[k.channelId] < Rank[j.channelId]
    \/ k.channelId = j.channelId /\ k.wakeAt <= j.wakeAt
NextContinuation(k) ==
    \A j \in BagToSet(callers) : j.pc = "channel" => Before(k, j)
NextChannelTimer(k) ==
    \A j \in BagToSet(callers) :
        /\ ~(j.pc = "global_sleep" /\ Expired(j))
        /\ (j.pc = "channel_sleep" /\ Expired(j)) => Before(k, j)

NoCooldown == [active |-> FALSE, at |-> 0, until |-> 0, mark |-> 0, polling |-> 0]

RateInit ==
    /\ now = 0
    /\ globalBucket = NewBucket(GLOBAL_CAPACITY, GLOBAL_REFILL_RATE, 0)
    /\ channelBuckets = <<>>
    /\ callers = EmptyBag
    /\ grants = [b \in BucketIds |-> <<>>]
    /\ afterRefill = [b \in BucketIds |-> 0]
    /\ cooldown = [c \in Channels |-> NoCooldown]
    /\ issued = [singles |-> 0, bursts |-> 0, signals |-> 0, resets |-> 0]
    /\ sync = NoLoop

\* a caller starts a loop of n acquireToken calls that it does not await
\* one by one: all of them on channel c, or (spread) alternating between
\* the channels, starting with c.  The caller starts a batch when no call
\* is pending.
CallerLoop(c, n, spread) ==
    /\ Ready
    /\ callers = EmptyBag
    /\ issued.bursts < MaxBursts
    /\ issued' = [issued EXCEPT !.bursts = @ + 1]
    /\ sync' = [left |-> n, channelId |-> c, spread |-> spread]
    /\ UNCHANGED <<now, globalBucket, channelBuckets, callers, grants, afterRefill, cooldown,
                   configVars, appVars, retryVars, pureVars>>

\* mutant: acquireToken goes to the channel bucket without taking a global
\* token
AcquireTokenCall_SkipGlobal(c) ==
    /\ callers' = callers (+) One(Caller("channel", c, now))
    /\ UNCHANGED <<globalBucket, grants, afterRefill>>

\* acquireToken(c) up to its first suspension: acquireFromBucket on the
\* global bucket, then await
AcquireTokenCall(c) ==
    LET step == acquireFromBucket(globalBucket, now)
        next == IF step.granted THEN Caller("channel", c, now)
                ELSE Caller("global_sleep", c, now + calculateWaitTime(globalBucket))
    IN /\ globalBucket' = step.bucket
       /\ callers' = callers (+) One(next)
       /\ grants' = IF step.granted THEN [grants EXCEPT !["global"] = Append(@, now)]
                    ELSE grants
       /\ afterRefill' = [afterRefill EXCEPT !["global"] = step.seen]

\* a caller calls acquireToken(c) in an event-loop turn of its own
AcquireToken(c) ==
    /\ Ready
    /\ issued.singles < MaxSingles
    /\ issued' = [issued EXCEPT !.singles = @ + 1]
    /\ AcquireTokenCall(c)
    /\ UNCHANGED <<now, channelBuckets, cooldown, sync, configVars, appVars, retryVars, pureVars>>

\* the caller loop calls acquireToken
LoopAcquireToken ==
    /\ ~Idle
    /\ sync' = IF sync.left = 1 THEN NoLoop
                ELSE [sync EXCEPT !.left = @ - 1,
                                  !.channelId = IF sync.spread THEN OtherChannel(@) ELSE @]
    /\ AcquireTokenCall(sync.channelId)
    /\ UNCHANGED <<now, channelBuckets, cooldown, issued, configVars, appVars, retryVars, pureVars>>

\* the timer of a call sleeping on the global bucket fires
ResumeGlobal(k) ==
    /\ Quiet
    /\ Waiting(k)
    /\ k.pc = "global_sleep"
    /\ k.wakeAt <= now
    /\ LET step == acquireFromBucket(globalBucket, now)
           next == IF step.granted THEN Caller("channel", k.channelId, now)
                   ELSE Caller("global_sleep", k.channelId, now + calculateWaitTime(globalBucket))
       IN /\ globalBucket' = step.bucket
          /\ callers' = (callers (-) One(k)) (+) One(next)
          /\ grants' = IF step.granted THEN [grants EXCEPT !["global"] = Append(@, now)]
                       ELSE grants
          /\ afterRefill' = [afterRefill EXCEPT !["global"] = step.seen]
    /\ UNCHANGED <<now, channelBuckets, cooldown, issued, sync, configVars, appVars, retryVars, pureVars>>

\* acquireFromBucket on the bucket of channel c by call k, from pc
AcquireFromChannel(k) ==
    LET c == k.channelId
        step == acquireFromBucket(getOrCreateChannelBucket(c), now)
    IN /\ channelBuckets' = SetBucket(c, step.bucket)
       /\ callers' = IF step.granted THEN callers (-) One(k)
                     ELSE (callers (-) One(k))
                          (+) One(Caller("channel_sleep", c, now + calculateWaitTime(step.bucket)))
       /\ grants' = IF step.granted THEN [grants EXCEPT ![c] = Append(@, now)] ELSE grants
       /\ afterRefill' = [afterRefill EXCEPT ![c] = step.seen]

\* acquireToken resumes after the global token: channel bucket, first try
ChannelStep(k) ==
    /\ Idle
    /\ Waiting(k)
    /\ k.pc = "channel"
    /\ NextContinuation(k)
    /\ AcquireFromChannel(k)
    /\ UNCHANGED <<now, globalBucket, cooldown, issued, sync, configVars, appVars, retryVars, pureVars>>

\* the timer of a call sleeping on a channel bucket fires
ResumeChannel(k) ==
    /\ Quiet
    /\ Waiting(k)
    /\ k.pc = "channel_sleep"
    /\ k.wakeAt <= now
    /\ NextChannelTimer(k)
    /\ AcquireFromChannel(k)
    /\ UNCHANGED <<now, globalBucket, cooldown, issued, sync, configVars, appVars, retryVars, pureVars>>

\* mutant: the cooldown is not added to lastRefill
HandleRateLimit_NoCooldown(c, retryAfter) ==
    /\ Ready
    /\ issued.signals < MaxSignals
    /\ issued' = [issued EXCEPT !.signals = @ + 1]
    /\ channelBuckets' = SetBucket(c, [getOrCreateChannelBucket(c) EXCEPT
                                           !.tokens = 0, !.lastRefill = now])
    /\ cooldown' = [cooldown EXCEPT ![c] =
                        [active |-> TRUE, at |-> now, until |-> now + retryAfter,
                         mark |-> Len(grants[c]),
                         polling |-> Cardinality({k \in BagToSet(callers) :
                                         k.pc = "channel_sleep" /\ k.channelId = c})]]
    /\ UNCHANGED <<now, globalBucket, callers, grants, afterRefill, sync, configVars, appVars, retryVars, pureVars>>

\* mutant: the signal empties every channel bucket
HandleRateLimit_AllChannels(c, retryAfter) ==
    /\ Ready
    /\ issued.signals < MaxSignals
    /\ issued' = [issued EXCEPT !.signals = @ + 1]
    /\ channelBuckets' =
           [d \in DOMAIN channelBuckets \cup {c} |->
               [getOrCreateChannelBucket(d) EXCEPT !.tokens = 0, !.lastRefill = now + retryAfter]]
    /\ cooldown' = [cooldown EXCEPT ![c] =
                        [active |-> TRUE, at |-> now, until |-> now + retryAfter,
                         mark |-> Len(grants[c]),
                         polling |-> Cardinality({k \in BagToSet(callers) :
                                         k.pc = "channel_sleep" /\ k.channelId = c})]]
    /\ UNCHANGED <<now, globalBucket, callers, grants, afterRefill, sync, configVars, appVars, retryVars, pureVars>>

\* mutant: the signal leaves one token in the bucket
HandleRateLimit_Refund(c, retryAfter) ==
    /\ Ready
    /\ issued.signals < MaxSignals
    /\ issued' = [issued EXCEPT !.signals = @ + 1]
    /\ channelBuckets' = SetBucket(c, [getOrCreateChannelBucket(c) EXCEPT
                                           !.tokens = Token, !.lastRefill = now + retryAfter])
    /\ cooldown' = [cooldown EXCEPT ![c] =
                        [active |-> TRUE, at |-> now, until |-> now + retryAfter,
                         mark |-> Len(grants[c]),
                         polling |-> Cardinality({k \in BagToSet(callers) :
                                         k.pc = "channel_sleep" /\ k.channelId = c})]]
    /\ UNCHANGED <<now, globalBucket, callers, grants, afterRefill, sync, configVars, appVars, retryVars, pureVars>>

\* mutant: a cooldown that ends later than the new one is kept
HandleRateLimit_Accumulate(c, retryAfter) ==
    /\ Ready
    /\ issued.signals < MaxSignals
    /\ issued' = [issued EXCEPT !.signals = @ + 1]
    /\ channelBuckets' = SetBucket(c, [getOrCreateChannelBucket(c) EXCEPT
               !.tokens = 0,
               !.lastRefill = IF @ > now + retryAfter THEN @ ELSE now + retryAfter])
    /\ cooldown' = [cooldown EXCEPT ![c] =
                        [active |-> TRUE, at |-> now, until |-> now + retryAfter,
                         mark |-> Len(grants[c]),
                         polling |-> Cardinality({k \in BagToSet(callers) :
                                         k.pc = "channel_sleep" /\ k.channelId = c})]]
    /\ UNCHANGED <<now, globalBucket, callers, grants, afterRefill, sync, configVars, appVars, retryVars, pureVars>>

HandleRateLimit(c, retryAfter) ==
    /\ Ready
    /\ issued.signals < MaxSignals
    /\ issued' = [issued EXCEPT !.signals = @ + 1]
    /\ channelBuckets' = SetBucket(c, [getOrCreateChannelBucket(c) EXCEPT
                                           !.tokens = 0, !.lastRefill = now + retryAfter])
    /\ cooldown' = [cooldown EXCEPT ![c] =
                        [active |-> TRUE, at |-> now, until |-> now + retryAfter,
                         mark |-> Len(grants[c]),
                         polling |-> Cardinality({k \in BagToSet(callers) :
                                         k.pc = "channel_sleep" /\ k.channelId = c})]]
    /\ UNCHANGED <<now, globalBucket, callers, grants, afterRefill, sync, configVars, appVars, retryVars, pureVars>>

\* mutant: only the global bucket is reset
Reset_GlobalOnly ==
    /\ Ready
    /\ issued.resets < MaxResets
    /\ issued' = [issued EXCEPT !.resets = @ + 1]
    /\ globalBucket' = [globalBucket EXCEPT !.tokens = globalBucket.capacity * Token,
                                            !.lastRefill = now]
    /\ cooldown' = [c \in Channels |-> NoCooldown]
    /\ UNCHANGED <<now, channelBuckets, callers, grants, afterRefill, sync, configVars, appVars, retryVars,
                   pureVars>>

Reset ==
    /\ Ready
    /\ issued.resets < MaxResets
    /\ issued' = [issued EXCEPT !.resets = @ + 1]
    /\ globalBucket' = [globalBucket EXCEPT !.tokens = globalBucket.capacity * Token,
                                            !.lastRefill = now]
    /\ channelBuckets' = [c \in DOMAIN channelBuckets |->
                             [channelBuckets[c] EXCEPT !.tokens = channelBuckets[c].capacity * Token,
                                                       !.lastRefill = now]]
    /\ cooldown' = [c \in Channels |-> NoCooldown]
    /\ UNCHANGED <<now, callers, grants, afterRefill, sync, configVars, appVars, retryVars, pureVars>>

\* the clock advances
Tick(d) ==
    /\ Ready
    /\ now + d <= MaxTime
    /\ now' = now + d
    /\ UNCHANGED <<globalBucket, channelBuckets, callers, grants, afterRefill, cooldown, issued,
                   sync, configVars, appVars, retryVars, pureVars>>

\* executions with short caller loops.  These callers make fewer than
\* GLOBAL_CAPACITY calls in all, so every call takes its global token at
\* once and no call ever sleeps on the global bucket.
RateNext ==
    \/ \E c \in Channels : CallerLoop(c, SmallLoop, FALSE)
    \/ LoopAcquireToken
    \/ \E c \in Channels : AcquireToken(c)
    \/ \E k \in BagToSet(callers) : ChannelStep(k)
    \/ \E k \in BagToSet(callers) : ResumeChannel(k)
    \/ \E c \in Channels, r \in RetryAfters : HandleRateLimit(c, r)
    \/ Reset
    \/ \E d \in Ticks : Tick(d)

\* executions that never call reset(), with caller loops that are long
\* enough to empty the global bucket and that keep both channels busy
QuotaNext ==
    \/ \E c \in Channels : CallerLoop(c, LargeLoop, TRUE)
    \/ LoopAcquireToken
    \/ \E c \in Channels : AcquireToken(c)
    \/ \E k \in BagToSet(callers) : ResumeGlobal(k)
    \/ \E k \in BagToSet(callers) : ChannelStep(k)
    \/ \E k \in BagToSet(callers) : ResumeChannel(k)
    \/ \E c \in Channels, r \in RetryAfters : HandleRateLimit(c, r)
    \/ \E d \in Ticks : Tick(d)

(***************************************************************************)
(* Direct calls of calculateDelay and of the classifier                    *)
(***************************************************************************)
CallCalculateDelay(a) ==
    /\ delayArg' = a
    /\ delayResult' = calculateDelay(baseDelay, a)
    /\ clsError' = NoValue
    /\ clsResult' = FALSE
    /\ UNCHANGED <<configVars, appVars, retryVars, rateVars>>

CallIsRetryableError(error) ==
    /\ clsError' = error
    /\ clsResult' = isRetryableError(error, retryableCodes)
    /\ delayArg' = -1
    /\ delayResult' = 0
    /\ UNCHANGED <<configVars, appVars, retryVars, rateVars>>

PureNext ==
    \/ \E a \in 0..MaxAttemptArg : CallCalculateDelay(a)
    \/ \E error \in ErrorValues : CallIsRetryableError(error)

(***************************************************************************)
(* MessageService: sendMessage, updateMessage and removeMessage.  Each is  *)
(*   retryHandler.execute(() =>                                            *)
(*     rateLimitService.executeWithRateLimit(channelId, operation))        *)
(* where operation calls the Discord client and wraps what it throws.  pc  *)
(* is where the call is suspended:                                         *)
(*   "global_sleep", "channel", "channel_sleep"  inside acquireToken       *)
(*   "operation"   the call of the Discord client is in flight             *)
(*   "backoff"     in the sleep of execute                                 *)
(***************************************************************************)
\* one call of a message method is followed from its start to its end;
\* concurrent acquisitions are the subject of RateNext and QuotaNext
Msgs == {1}
Methods == {"sendMessage", "updateMessage", "removeMessage"}

\* Values thrown on the way of a message call: a JSValue with the
\* properties the rate limiter reads
MsgValue(k, s, sc, c, ra, ras, ch) ==
    [kind |-> k, status |-> s, statusCode |-> sc, code |-> c, ident |-> 0,
     retryAfter |-> ra, retry_after |-> ras, channelId |-> ch]
NoFailure == MsgValue("undefined", Absent, Absent, Absent, Absent, Absent, Absent)
NewRateLimitError(retryAfter, c) ==
    MsgValue("RateLimitError", Absent, Absent, Absent, Num(retryAfter), Absent, Str(c))
NewPermissionError(c) ==
    MsgValue("PermissionError", Absent, Absent, Absent, Absent, Absent, Str(c))
NewChannelNotFoundError(c) ==
    MsgValue("ChannelNotFoundError", Absent, Absent, Absent, Absent, Absent, Str(c))
HttpFailure(status) ==
    MsgValue("object", Num(status), Absent, Absent, Absent, Absent, Absent)

\* What the Discord client does to a call: it throws one of these, or the
\* channel fetch resolves to null or to a channel that is not text based,
\* or the call succeeds.
TransportFailures ==
    { HttpFailure(403), HttpFailure(404), HttpFailure(503),
      MsgValue("object", Num(429), Absent, Absent, Num(300), Absent, Absent),
      MsgValue("object", Absent, Num(429), Absent, Absent, Absent, Absent),
      MsgValue("object", Absent, Absent, Num(429), Num(0), Num(1), Absent) }
OperationResults ==
    [type : {"throws"}, error : TransportFailures]
    \cup [type : {"success", "no_channel", "not_text"}, error : {NoFailure}]

Truthy(v) ==
    \/ v.type = "number" /\ v.num # 0
    \/ v.type = "string" /\ v.str # ""

HasStatus(error, n) ==
    error.status = Num(n) \/ error.statusCode = Num(n) \/ error.code = Num(n)

\* mutant: 403 and 404 are not translated
wrapError_Identity(error, c) == error

wrapError(error, c) ==
    IF HasStatus(error, 403) THEN NewPermissionError(c)
    ELSE IF HasStatus(error, 404) THEN NewChannelNotFoundError(c)
    ELSE error

\* what the operation passed to executeWithRateLimit throws, if it throws
OperationThrows(result, c) ==
    CASE result.type = "no_channel" -> NewChannelNotFoundError(c)
      [] result.type = "not_text" -> NewPermissionError(c)
      [] result.type = "throws" -> wrapError(result.error, c)

isRateLimitError(error) ==
    error.kind \notin {"null", "undefined"} /\ HasStatus(error, 429)

extractRetryAfter(error) ==
    IF Truthy(error.retryAfter) THEN error.retryAfter.num
    ELSE IF Truthy(error.retry_after) THEN error.retry_after.num * 1000
    ELSE 1000

NewMsg ==
    [pc |-> "idle", method |-> "sendMessage", channelId |-> "c1", attempt |-> 0, wakeAt |-> 0,
     globalTaken |-> 0, channelTaken |-> 0, invoked |-> 0, rateLimited |-> 0,
     transport |-> NoFailure, thrown |-> NoFailure]

MsgInit == msgs = [m \in Msgs |-> NewMsg]

MsgSleeping(m) == msgs[m].pc \in {"global_sleep", "channel_sleep", "backoff"}
MsgQuiet == \A m \in Msgs : msgs[m].pc # "channel"
MsgReady == MsgQuiet /\ \A m \in Msgs : MsgSleeping(m) => msgs[m].wakeAt > now
MinOf(S) == CHOOSE x \in S : \A y \in S : x <= y

\* acquireToken of call m, from its start or from the timer of a sleep on
\* the global bucket: acquireFromBucket(globalBucket), then await
MsgAcquireGlobal(m, call) ==
    LET step == acquireFromBucket(globalBucket, now)
    IN /\ globalBucket' = step.bucket
       /\ grants' = IF step.granted THEN [grants EXCEPT !["global"] = Append(@, now)]
                    ELSE grants
       /\ afterRefill' = [afterRefill EXCEPT !["global"] = step.seen]
       /\ msgs' = [msgs EXCEPT ![m] =
              IF step.granted
              THEN [call EXCEPT !.pc = "channel", !.globalTaken = @ + 1]
              ELSE [call EXCEPT !.pc = "global_sleep",
                                !.wakeAt = now + calculateWaitTime(globalBucket)]]
       /\ UNCHANGED <<channelBuckets, cooldown>>

\* mutant: a call that has to wait for its channel gives its global token
\* back
MsgAcquireChannel_Refund(m) ==
    LET c == msgs[m].channelId
        step == acquireFromBucket(getOrCreateChannelBucket(c), now)
    IN /\ channelBuckets' = SetBucket(c, step.bucket)
       /\ grants' = IF step.granted THEN [grants EXCEPT ![c] = Append(@, now)] ELSE grants
       /\ afterRefill' = [afterRefill EXCEPT ![c] = step.seen]
       /\ msgs' = [msgs EXCEPT ![m] =
              IF step.granted
              THEN [@ EXCEPT !.pc = "operation", !.channelTaken = @ + 1, !.invoked = @ + 1]
              ELSE [@ EXCEPT !.pc = "channel_sleep",
                             !.wakeAt = now + calculateWaitTime(step.bucket)]]
       /\ globalBucket' = IF step.granted THEN globalBucket
                          ELSE [globalBucket EXCEPT !.tokens = @ + Token]
       /\ UNCHANGED cooldown

\* acquireFromBucket on the channel bucket; once the token is granted
\* acquireToken returns and executeWithRateLimit invokes the operation,
\* which runs up to its call of the Discord client
MsgAcquireChannel(m) ==
    LET c == msgs[m].channelId
        step == acquireFromBucket(getOrCreateChannelBucket(c), now)
    IN /\ channelBuckets' = SetBucket(c, step.bucket)
       /\ grants' = IF step.granted THEN [grants EXCEPT ![c] = Append(@, now)] ELSE grants
       /\ afterRefill' = [afterRefill EXCEPT ![c] = step.seen]
       /\ msgs' = [msgs EXCEPT ![m] =
              IF step.granted
              THEN [@ EXCEPT !.pc = "operation", !.channelTaken = @ + 1, !.invoked = @ + 1]
              ELSE [@ EXCEPT !.pc = "channel_sleep",
                             !.wakeAt = now + calculateWaitTime(step.bucket)]]
       /\ UNCHANGED <<globalBucket, cooldown>>

\* sendMessage / updateMessage / removeMessage is called
MessageCall(m, method, c) ==
    /\ MsgReady
    /\ msgs[m].pc = "idle"
    /\ \A k \in Msgs : k < m => msgs[k].pc # "idle"
    /\ MsgAcquireGlobal(m, [NewMsg EXCEPT !.method = method, !.channelId = c])
    /\ UNCHANGED <<now, callers, issued, sync, interactions, acquisitions, clientVars, configVars, retryVars, pureVars>>

\* acquireToken resumes after the global token
MsgChannelStep(m) ==
    /\ msgs[m].pc = "channel"
    /\ MsgAcquireChannel(m)
    /\ UNCHANGED <<now, callers, issued, sync, interactions, acquisitions, clientVars, configVars, retryVars, pureVars>>

\* mutant: the sleeping call polls again before its timer is due
MsgPoll_Early(m) ==
    /\ MsgQuiet
    /\ msgs[m].pc \in {"global_sleep", "channel_sleep"}
    /\ IF msgs[m].pc = "global_sleep" THEN MsgAcquireGlobal(m, msgs[m])
       ELSE MsgAcquireChannel(m)
    /\ UNCHANGED <<now, callers, issued, sync, interactions, acquisitions, clientVars, configVars, retryVars, pureVars>>

\* the timer of a sleep in acquireFromBucket fires: the call tries the same
\* bucket again
MsgPoll(m) ==
    /\ MsgQuiet
    /\ msgs[m].pc \in {"global_sleep", "channel_sleep"}
    /\ msgs[m].wakeAt <= now
    /\ IF msgs[m].pc = "global_sleep" THEN MsgAcquireGlobal(m, msgs[m])
       ELSE MsgAcquireChannel(m)
    /\ UNCHANGED <<now, callers, issued, sync, interactions, acquisitions, clientVars, configVars, retryVars, pureVars>>

\* the bucket map after handleRateLimit(c, retryAfter)
Depleted(c, retryAfter) ==
    SetBucket(c, [getOrCreateChannelBucket(c) EXCEPT !.tokens = 0,
                                                     !.lastRefill = now + retryAfter])
Signal(c, retryAfter) ==
    [active |-> TRUE, at |-> now, until |-> now + retryAfter, mark |-> Len(grants[c]),
     polling |-> Cardinality({k \in Msgs : msgs[k].pc = "channel_sleep"
                                           /\ msgs[k].channelId = c})]

\* what leaves executeWithRateLimit when the operation threw error
LeavesRateLimit(error, c) ==
    IF isRateLimitError(error) THEN NewRateLimitError(extractRetryAfter(error), c) ELSE error

\* the catch block of execute: the call after error was thrown at it
AfterCatch(call, error) ==
    IF ~isRetryableError(error, retryableCodes) \/ call.attempt = maxRetries
    THEN [call EXCEPT !.pc = "rejected", !.thrown = error]
    ELSE [call EXCEPT !.pc = "backoff", !.thrown = error,
                      !.wakeAt = now + calculateDelay(baseDelay, call.attempt)]

\* mutant: a 429 is passed on without telling the bucket
OperationSettles_NoSignal(m, result) ==
    /\ MsgQuiet
    /\ msgs[m].pc = "operation"
    /\ IF result.type = "success"
       THEN msgs' = [msgs EXCEPT ![m] = [@ EXCEPT !.pc = "resolved", !.transport = NoFailure,
                                                   !.thrown = NoFailure]]
       ELSE LET c == msgs[m].channelId
                error == OperationThrows(result, c)
                call == [msgs[m] EXCEPT !.transport = result.error,
                                        !.rateLimited = IF isRateLimitError(error)
                                                        THEN @ + 1 ELSE @]
            IN msgs' = [msgs EXCEPT ![m] = AfterCatch(call, LeavesRateLimit(error, c))]
    /\ UNCHANGED <<now, globalBucket, channelBuckets, cooldown, grants, afterRefill, callers,
                   issued, sync, interactions, acquisitions, clientVars, configVars, retryVars, pureVars>>

\* the call of the Discord client settles: the operation returns or
\* throws, executeWithRateLimit passes that on (after handleRateLimit for a
\* 429), and execute returns, rejects or starts its backoff sleep
OperationSettles(m, result) ==
    /\ MsgQuiet
    /\ msgs[m].pc = "operation"
    /\ IF result.type = "success"
       THEN /\ msgs' = [msgs EXCEPT ![m] = [@ EXCEPT !.pc = "resolved", !.transport = NoFailure,
                                                      !.thrown = NoFailure]]
            /\ UNCHANGED <<channelBuckets, cooldown>>
       ELSE LET c == msgs[m].channelId
                error == OperationThrows(result, c)
                call == [msgs[m] EXCEPT !.transport = result.error,
                                        !.rateLimited = IF isRateLimitError(error)
                                                        THEN @ + 1 ELSE @]
            IN /\ msgs' = [msgs EXCEPT ![m] = AfterCatch(call, LeavesRateLimit(error, c))]
               /\ IF isRateLimitError(error)
                  THEN /\ channelBuckets' = Depleted(c, extractRetryAfter(error))
                       /\ cooldown' = [cooldown EXCEPT ![c] = Signal(c, extractRetryAfter(error))]
                  ELSE UNCHANGED <<channelBuckets, cooldown>>
    /\ UNCHANGED <<now, globalBucket, grants, afterRefill, callers, issued, sync, interactions, acquisitions, clientVars,
                   configVars, retryVars, pureVars>>

\* mutant: the retry invokes the operation without acquiring tokens again
BackoffEnds_NoAcquire(m) ==
    /\ MsgQuiet
    /\ msgs[m].pc = "backoff"
    /\ msgs[m].wakeAt <= now
    /\ msgs' = [msgs EXCEPT ![m] = [@ EXCEPT !.attempt = @ + 1, !.pc = "operation",
                                              !.invoked = @ + 1]]
    /\ UNCHANGED <<now, globalBucket, channelBuckets, cooldown, grants, afterRefill, callers,
                   issued, sync, interactions, acquisitions, clientVars, configVars, retryVars, pureVars>>

\* the timer of the backoff sleep fires: next attempt
BackoffEnds(m) ==
    /\ MsgQuiet
    /\ msgs[m].pc = "backoff"
    /\ msgs[m].wakeAt <= now
    /\ MsgAcquireGlobal(m, [msgs[m] EXCEPT !.attempt = @ + 1])
    /\ UNCHANGED <<now, callers, issued, sync, interactions, acquisitions, clientVars, configVars, retryVars, pureVars>>

\* reset() is called between two calls
MsgReset ==
    /\ MsgReady
    /\ Reset

\* time passes until the next timer is due
AdvanceClock ==
    /\ MsgReady
    /\ \E m \in Msgs : MsgSleeping(m)
    /\ now' = MinOf({msgs[m].wakeAt : m \in {k \in Msgs : MsgSleeping(k)}})
    /\ UNCHANGED <<globalBucket, channelBuckets, callers, grants, afterRefill, cooldown, issued,
                   sync, appVars, configVars, retryVars, pureVars>>

MessageNext ==
    \/ \E m \in Msgs, method \in Methods, c \in Channels : MessageCall(m, method, c)
    \/ \E m \in Msgs : MsgChannelStep(m)
    \/ \E m \in Msgs : MsgPoll(m)
    \/ \E m \in Msgs, result \in OperationResults : OperationSettles(m, result)
    \/ \E m \in Msgs : BackoffEnds(m)
    \/ MsgReset
    \/ AdvanceClock

(***************************************************************************)
(* InteractionService.handleInteraction, one call.  pc:                    *)
(*   "handler"   awaiting the registered handler                           *)
(*   "replying"  in the catch block, awaiting the error reply              *)
(***************************************************************************)
\* the instants at which something happens to the interaction (ms)
Instants == {1000, 3000, 3001, 3100, 5000}

NewInteraction ==
    [pc |-> "idle", startTime |-> 0, replied |-> FALSE, deferred |-> FALSE,
     handler |-> "none", finishedAt |-> 0, acknowledged |-> FALSE, errorReplies |-> 0,
     error |-> "none"]

InteractionInit == interactions = NewInteraction

\* handleInteraction is called with an interaction: not a button, a button
\* without handler (both return at once), or a button whose handler is
\* invoked
HandleInteraction(isButton, hasHandler) ==
    /\ interactions.pc = "idle"
    /\ interactions' =
           IF ~isButton \/ ~hasHandler THEN [interactions EXCEPT !.pc = "resolved"]
           ELSE [interactions EXCEPT !.pc = "handler", !.startTime = now]
    /\ UNCHANGED <<msgs, acquisitions, clientVars, configVars, retryVars, pureVars, rateVars>>

\* the handler replies to the interaction
HandlerReplies ==
    /\ interactions.pc = "handler"
    /\ ~interactions.replied /\ ~interactions.deferred
    /\ interactions' = [interactions EXCEPT !.replied = TRUE]
    /\ UNCHANGED <<msgs, acquisitions, clientVars, configVars, retryVars, pureVars, rateVars>>

\* the handler defers its reply
HandlerDefers ==
    /\ interactions.pc = "handler"
    /\ ~interactions.replied /\ ~interactions.deferred
    /\ interactions' = [interactions EXCEPT !.deferred = TRUE]
    /\ UNCHANGED <<msgs, acquisitions, clientVars, configVars, retryVars, pureVars, rateVars>>

\* mutant: the error reply is sent whether or not the interaction was
\* acknowledged
CatchBlock_AlwaysReply(call, error) ==
    [call EXCEPT !.pc = "replying", !.error = error, !.errorReplies = @ + 1]

\* the catch block: the interaction after error was caught
CatchBlock(call, error) ==
    IF ~call.replied /\ ~call.deferred
    THEN [call EXCEPT !.pc = "replying", !.error = error, !.errorReplies = @ + 1]
    ELSE [call EXCEPT !.pc = "rejected", !.error = error]

\* mutant: the deadline is missed from 3000 ms on
HandlerReturns_AtLeast ==
    /\ interactions.pc = "handler"
    /\ LET acknowledged == interactions.replied \/ interactions.deferred
           elapsedTime == now - interactions.startTime
           call == [interactions EXCEPT !.handler = "returned", !.finishedAt = now,
                                        !.acknowledged = acknowledged]
       IN interactions' =
              IF ~acknowledged /\ elapsedTime >= 3000
              THEN CatchBlock(call, "InteractionTimeoutError")
              ELSE [call EXCEPT !.pc = "resolved"]
    /\ UNCHANGED <<msgs, acquisitions, clientVars, configVars, retryVars, pureVars, rateVars>>

\* the handler returns: checkAcknowledgment and the deadline check
HandlerReturns ==
    /\ interactions.pc = "handler"
    /\ LET acknowledged == interactions.replied \/ interactions.deferred
           elapsedTime == now - interactions.startTime
           call == [interactions EXCEPT !.handler = "returned", !.finishedAt = now,
                                        !.acknowledged = acknowledged]
       IN interactions' =
              IF ~acknowledged /\ elapsedTime > 3000
              THEN CatchBlock(call, "InteractionTimeoutError")
              ELSE [call EXCEPT !.pc = "resolved"]
    /\ UNCHANGED <<msgs, acquisitions, clientVars, configVars, retryVars, pureVars, rateVars>>

\* the handler throws: straight to the catch block
HandlerThrows ==
    /\ interactions.pc = "handler"
    /\ interactions' =
           CatchBlock([interactions EXCEPT !.handler = "threw", !.finishedAt = now,
                                           !.acknowledged = interactions.replied
                                                            \/ interactions.deferred],
                      "HandlerError")
    /\ UNCHANGED <<msgs, acquisitions, clientVars, configVars, retryVars, pureVars, rateVars>>

\* the error reply settles; a failure of it is ignored, and the caught
\* error is thrown again
ErrorReplySettles(sent) ==
    /\ interactions.pc = "replying"
    /\ interactions' = [interactions EXCEPT !.pc = "rejected", !.replied = sent]
    /\ UNCHANGED <<msgs, acquisitions, clientVars, configVars, retryVars, pureVars, rateVars>>

\* time passes while the call is not over
TimePasses(t) ==
    /\ interactions.pc \in {"idle", "handler", "replying"}
    /\ t > now
    /\ now' = t
    /\ UNCHANGED <<globalBucket, channelBuckets, callers, grants, afterRefill, cooldown, issued,
                   sync, appVars, configVars, retryVars, pureVars>>

InteractionNext ==
    \/ \E isButton \in BOOLEAN, hasHandler \in BOOLEAN : HandleInteraction(isButton, hasHandler)
    \/ HandlerReplies
    \/ HandlerDefers
    \/ HandlerReturns
    \/ HandlerThrows
    \/ \E sent \in BOOLEAN : ErrorReplySettles(sent)
    \/ \E t \in Instants : TimePasses(t)

(***************************************************************************)
(* acquireToken calls with their identity.  Call a is the a-th call made,  *)
(* so the order of the indices is the order of submission.  pc as for the  *)
(* suspended calls above, "idle" before the call and "done" once it has    *)
(* returned.  reset() is not called in these executions.                   *)
(***************************************************************************)
Acqs == 1..NAcq
\* the time between two events from outside, shorter than a channel wait
Pauses == {100}

Acquisition(pc, c, wakeAt) == [pc |-> pc, channelId |-> c, wakeAt |-> wakeAt]
NewAcquisition == Acquisition("idle", "c1", 0)

AcquisitionInit == acquisitions = [a \in Acqs |-> NewAcquisition]

AcqSleeping(a) == acquisitions[a].pc \in {"global_sleep", "channel_sleep"}
AcqQuiet == \A a \in Acqs : acquisitions[a].pc # "channel"
AcqReady == AcqQuiet /\ \A a \in Acqs : AcqSleeping(a) => acquisitions[a].wakeAt > now

\* mutant: acquireToken returns with the global token alone
AcqGlobal_SkipChannel(a, c) ==
    LET step == acquireFromBucket(globalBucket, now)
    IN /\ globalBucket' = step.bucket
       /\ acquisitions' = [acquisitions EXCEPT ![a] =
              IF step.granted THEN Acquisition("done", c, 0)
              ELSE Acquisition("global_sleep", c, now + calculateWaitTime(globalBucket))]
       /\ UNCHANGED channelBuckets

\* acquireFromBucket(globalBucket) by call a, then await
AcqGlobal(a, c) ==
    LET step == acquireFromBucket(globalBucket, now)
    IN /\ globalBucket' = step.bucket
       /\ acquisitions' = [acquisitions EXCEPT ![a] =
              IF step.granted THEN Acquisition("channel", c, 0)
              ELSE Acquisition("global_sleep", c, now + calculateWaitTime(globalBucket))]
       /\ UNCHANGED channelBuckets

\* mutant: a call is served only when no call made before it is waiting
\* for the same channel bucket
AcqChannel_Fifo(a) ==
    LET c == acquisitions[a].channelId
        step == acquireFromBucket(getOrCreateChannelBucket(c), now)
        first == \A b \in 1..(a - 1) :
                     ~(acquisitions[b].channelId = c /\ acquisitions[b].pc = "channel_sleep")
        refilled == refillBucket(getOrCreateChannelBucket(c), now)
    IN /\ channelBuckets' = SetBucket(c, IF first THEN step.bucket ELSE refilled)
       /\ acquisitions' = [acquisitions EXCEPT ![a] =
              IF step.granted /\ first THEN Acquisition("done", c, 0)
              ELSE Acquisition("channel_sleep", c, now + calculateWaitTime(step.bucket))]
       /\ UNCHANGED globalBucket

\* acquireFromBucket(channelBucket) by call a; with the token acquireToken
\* returns
AcqChannel(a) ==
    LET c == acquisitions[a].channelId
        step == acquireFromBucket(getOrCreateChannelBucket(c), now)
    IN /\ channelBuckets' = SetBucket(c, step.bucket)
       /\ acquisitions' = [acquisitions EXCEPT ![a] =
              IF step.granted THEN Acquisition("done", c, 0)
              ELSE Acquisition("channel_sleep", c, now + calculateWaitTime(step.bucket))]
       /\ UNCHANGED globalBucket

\* the a-th call of acquireToken is made, on channel c
AcquireTokenBy(a, c) ==
    /\ AcqReady
    /\ acquisitions[a].pc = "idle"
    /\ \A b \in 1..(a - 1) : acquisitions[b].pc # "idle"
    /\ AcqGlobal(a, c)
    /\ UNCHANGED <<now, callers, grants, afterRefill, cooldown, issued, sync, msgs, interactions,
                   clientVars, configVars, retryVars, pureVars>>

\* the a-th call of acquireToken is made in the block of code that made
\* an earlier one, before the continuation of that one has run
AcquireTokenSameTick(a, c) ==
    /\ \E b \in Acqs : acquisitions[b].pc = "channel"
    /\ \A b \in Acqs : AcqSleeping(b) => acquisitions[b].wakeAt > now
    /\ acquisitions[a].pc = "idle"
    /\ \A b \in 1..(a - 1) : acquisitions[b].pc # "idle"
    /\ AcqGlobal(a, c)
    /\ UNCHANGED <<now, callers, grants, afterRefill, cooldown, issued, sync, msgs, interactions,
                   clientVars, configVars, retryVars, pureVars>>

\* call a resumes after the global token
AcqChannelStep(a) ==
    /\ acquisitions[a].pc = "channel"
    /\ AcqChannel(a)
    /\ UNCHANGED <<now, callers, grants, afterRefill, cooldown, issued, sync, msgs, interactions,
                   clientVars, configVars, retryVars, pureVars>>

\* the timer of sleeping call a fires: it tries its bucket again
AcqPoll(a) ==
    /\ AcqQuiet
    /\ AcqSleeping(a)
    /\ acquisitions[a].wakeAt <= now
    /\ IF acquisitions[a].pc = "global_sleep" THEN AcqGlobal(a, acquisitions[a].channelId)
       ELSE AcqChannel(a)
    /\ UNCHANGED <<now, callers, grants, afterRefill, cooldown, issued, sync, msgs, interactions,
                   clientVars, configVars, retryVars, pureVars>>

\* handleRateLimit(c, retryAfter) is called between two steps of the calls
AcqSignal(c, retryAfter) ==
    /\ AcqReady
    /\ issued.signals < MaxSignals
    /\ issued' = [issued EXCEPT !.signals = @ + 1]
    /\ channelBuckets' = Depleted(c, retryAfter)
    /\ UNCHANGED <<now, globalBucket, callers, grants, afterRefill, cooldown, sync, appVars,
                   configVars, retryVars, pureVars>>

\* a caller makes, in one loop, as many acquireToken calls on channels
\* other than the ones followed here as the global bucket has whole
\* tokens: each takes its global token at once, and none of them touches
\* the buckets of the channels followed
OtherChannelsLoop ==
    /\ AcqReady
    /\ issued.bursts < MaxBursts
    /\ issued' = [issued EXCEPT !.bursts = @ + 1]
    /\ LET refilled == refillBucket(globalBucket, now)
       IN /\ refilled.tokens >= Token
          /\ globalBucket' = [refilled EXCEPT !.tokens = @ % Token]
    /\ UNCHANGED <<now, channelBuckets, callers, grants, afterRefill, cooldown, sync, appVars,
                   configVars, retryVars, pureVars>>

\* time passes with no timer due
AcqPause(d) ==
    /\ AcqReady
    /\ now + d <= MaxTime
    /\ \A a \in Acqs : AcqSleeping(a) => now + d <= acquisitions[a].wakeAt
    /\ now' = now + d
    /\ UNCHANGED <<globalBucket, channelBuckets, callers, grants, afterRefill, cooldown, issued,
                   sync, appVars, configVars, retryVars, pureVars>>

\* time passes until the next timer is due
AcqAdvance ==
    /\ AcqReady
    /\ \E a \in Acqs : AcqSleeping(a)
    /\ now' = MinOf({acquisitions[a].wakeAt : a \in {b \in Acqs : AcqSleeping(b)}})
    /\ UNCHANGED <<globalBucket, channelBuckets, callers, grants, afterRefill, cooldown, issued,
                   sync, appVars, configVars, retryVars, pureVars>>

AcquisitionNext ==
    \/ \E a \in Acqs, c \in Channels : AcquireTokenBy(a, c)
    \/ \E a \in Acqs, c \in Channels : AcquireTokenSameTick(a, c)
    \/ \E a \in Acqs : AcqChannelStep(a)
    \/ \E a \in Acqs : AcqPoll(a)
    \/ \E c \in Channels, r \in RetryAfters : AcqSignal(c, r)
    \/ \E d \in Pauses : AcqPause(d)
    \/ AcqAdvance

\* executions in which time passes from timer to timer and other traffic
\* may empty the global bucket
AcquisitionLiveNext ==
    \/ \E a \in Acqs, c \in Channels : AcquireTokenBy(a, c)
    \/ \E a \in Acqs : AcqChannelStep(a)
    \/ \E a \in Acqs : AcqPoll(a)
    \/ \E c \in Channels, r \in RetryAfters : AcqSignal(c, r)
    \/ OtherChannelsLoop
    \/ AcqAdvance

\* time keeps advancing, timers fire and continuations run
AcquisitionFairness ==
    /\ WF_vars(AcqAdvance)
    /\ \A a \in Acqs : WF_vars(AcqChannelStep(a)) /\ WF_vars(AcqPoll(a))

(***************************************************************************)
(* DiscordNotifier.postError, one call.  Each post is                      *)
(* postMessage(options, channel) = messageService.sendMessage(channel, ..) *)
(* and runs as message call 1 above.  pc:                                  *)
(*   "error_channel"    awaiting the post to the error channel             *)
(*   "primary_channel"  awaiting the post to the primary channel           *)
(***************************************************************************)
\* options.channelId
PrimaryChannel == "c1"
\* options.errorChannelId: not set, empty, the primary channel, another one
ErrorChannelIds == {Absent, Str(""), Str("c1"), Str("c2")}

NewErrorPost ==
    [pc |-> "idle", errorChannelId |-> Absent, posts |-> <<>>, failures |-> 0,
     result |-> "none"]

\* sendMessage(c, options) up to its first suspension
SendMessageTo(c) == MsgAcquireGlobal(1, [NewMsg EXCEPT !.channelId = c])

\* postError is called on a notifier configured with errorChannelId
PostError(errorChannelId) ==
    /\ errorPost.pc = "idle"
    /\ LET first == IF Truthy(errorChannelId) THEN errorChannelId.str ELSE PrimaryChannel
       IN /\ errorPost' = [NewErrorPost EXCEPT
                               !.pc = IF Truthy(errorChannelId) THEN "error_channel"
                                      ELSE "primary_channel",
                               !.errorChannelId = errorChannelId,
                               !.posts = <<first>>]
          /\ SendMessageTo(first)
    /\ UNCHANGED <<now, callers, issued, sync, interactions, acquisitions, actionRow, truncated, serviceVars,
                   configVars, retryVars, pureVars>>

\* mutant: a failed post to the error channel ends postError
PostMessageSettles_NoFallback ==
    /\ errorPost.pc \in {"error_channel", "primary_channel"}
    /\ msgs[1].pc \in {"resolved", "rejected"}
    /\ errorPost' =
           IF msgs[1].pc = "resolved"
           THEN [errorPost EXCEPT !.pc = "resolved", !.result = "message"]
           ELSE [errorPost EXCEPT !.pc = "resolved", !.result = "undefined",
                                  !.failures = @ + 1]
    /\ UNCHANGED <<msgs, globalBucket, grants, afterRefill, channelBuckets, cooldown>>
    /\ UNCHANGED <<now, callers, issued, sync, interactions, acquisitions, actionRow, truncated, serviceVars,
                   configVars, retryVars, pureVars>>

\* the awaited postMessage settles: return the message, or catch the
\* failure and go on to the primary channel, or give up with undefined
PostMessageSettles ==
    /\ errorPost.pc \in {"error_channel", "primary_channel"}
    /\ msgs[1].pc \in {"resolved", "rejected"}
    /\ IF msgs[1].pc = "resolved"
       THEN /\ errorPost' = [errorPost EXCEPT !.pc = "resolved", !.result = "message"]
            /\ UNCHANGED <<msgs, globalBucket, grants, afterRefill, channelBuckets, cooldown>>
       ELSE IF errorPost.pc = "error_channel"
       THEN /\ errorPost' = [errorPost EXCEPT !.pc = "primary_channel",
                                              !.posts = Append(@, PrimaryChannel),
                                              !.failures = @ + 1]
            /\ SendMessageTo(PrimaryChannel)
       ELSE /\ errorPost' = [errorPost EXCEPT !.pc = "resolved", !.result = "undefined",
                                              !.failures = @ + 1]
            /\ UNCHANGED <<msgs, globalBucket, grants, afterRefill, channelBuckets, cooldown>>
    /\ UNCHANGED <<now, callers, issued, sync, interactions, acquisitions, actionRow, truncated, serviceVars,
                   configVars, retryVars, pureVars>>

PostErrorNext ==
    \/ \E errorChannelId \in ErrorChannelIds : PostError(errorChannelId)
    \/ PostMessageSettles
    \/ \E m \in Msgs : MsgChannelStep(m)
    \/ \E m \in Msgs : MsgPoll(m)
    \/ \E m \in Msgs, result \in OperationResults : OperationSettles(m, result)
    \/ \E m \in Msgs : BackoffEnds(m)
    \/ AdvanceClock

(***************************************************************************)
(* ActionRowBuilder and the ButtonBuilders added to it.  components is     *)
(* this.components, built the number of components of the discord.js row   *)
(* this.row.  Of the last call the record keeps the method, the number of  *)
(* buttons passed and whether each of them builds, what the call threw     *)
(* (the field of the ValidationError, "none" for a normal return) and, for *)
(* build, the size of the row returned; turn alternates so that every call *)
(* is a step.                                                              *)
(***************************************************************************)
MAX_COMPONENTS == 5

\* a ButtonBuilder: its style and whether customId and url are set
Button(style, customId, url) == [style |-> style, customId |-> customId, url |-> url]
Buttons ==
    {Button("Primary", TRUE, FALSE), Button("Link", FALSE, TRUE), Button("Primary", FALSE, FALSE)}

\* ButtonBuilder.build: the field of the ValidationError it throws, "none"
\* when it returns the button
ButtonBuild(b) ==
    IF b.style = "Link"
    THEN IF ~b.url THEN "url" ELSE IF b.customId THEN "customId" ELSE "none"
    ELSE IF ~b.customId THEN "customId" ELSE IF b.url THEN "url" ELSE "none"

\* components.map((c) => c.build()): what the first failing build throws
MapBuild(components) ==
    LET failing == {i \in 1..Len(components) : ButtonBuild(components[i]) # "none"}
    IN IF failing = {} THEN "none"
       ELSE ButtonBuild(components[CHOOSE i \in failing : \A j \in failing : i <= j])

\* the argument lists of addComponents: up to MaxAdd buttons
RECURSIVE ButtonLists(_)
ButtonLists(n) ==
    IF n = 0 THEN {<<>>}
    ELSE ButtonLists(n - 1)
         \cup {Append(l, b) : l \in {k \in ButtonLists(n - 1) : Len(k) = n - 1}, b \in Buttons}
ArgumentLists == ButtonLists(MaxAdd)

NewActionRow ==
    [components |-> <<>>, built |-> 0, call |-> "none", added |-> 0, valid |-> TRUE,
     thrown |-> "none", returned |-> 0, turn |-> 0]

\* addComponents(...components) on row: the limit check, the push, then
\* the builds and the addComponents of the discord.js row
addComponents(row, components) ==
    LET totalComponents == Len(row.components) + Len(components)
        start == [row EXCEPT !.call = "addComponents", !.added = Len(components),
                             !.valid = (MapBuild(components) = "none"),
                             !.returned = 0, !.turn = 1 - @]
    IN IF totalComponents > MAX_COMPONENTS
       THEN [start EXCEPT !.thrown = "components"]
       ELSE LET pushed == [start EXCEPT !.components = @ \o components]
            IN IF MapBuild(components) # "none"
               THEN [pushed EXCEPT !.thrown = MapBuild(components)]
               ELSE [pushed EXCEPT !.thrown = "none", !.built = @ + Len(components)]

\* build() on row: throws for an empty this.components, else returns
\* this.row
build(row) ==
    LET start == [row EXCEPT !.call = "build", !.added = 0, !.valid = TRUE, !.turn = 1 - @]
    IN IF Len(row.components) = 0
       THEN [start EXCEPT !.thrown = "components", !.returned = 0]
       ELSE [start EXCEPT !.thrown = "none", !.returned = row.built]

AddComponents(components) ==
    /\ actionRow' = addComponents(actionRow, components)
    /\ UNCHANGED <<errorPost, truncated, serviceVars, msgs, interactions, acquisitions, configVars, retryVars,
                   pureVars, rateVars>>

Build ==
    /\ actionRow' = build(actionRow)
    /\ UNCHANGED <<errorPost, truncated, serviceVars, msgs, interactions, acquisitions, configVars, retryVars,
                   pureVars, rateVars>>

\* new ActionRowBuilder()
NewRow ==
    /\ actionRow' = NewActionRow
    /\ UNCHANGED <<errorPost, truncated, serviceVars, msgs, interactions, acquisitions, configVars, retryVars,
                   pureVars, rateVars>>

ActionRowNext ==
    \/ \E components \in ArgumentLists : AddComponents(components)
    \/ Build
    \/ NewRow

(***************************************************************************)
(* TextTruncator.truncate.  A string is the sequence of its characters;    *)
(* truncated keeps the arguments and the result of the last call.          *)
(***************************************************************************)
ELLIPSIS == <<".", ".", ".">>
Characters == {"a", "."}

RECURSIVE Texts(_)
Texts(n) ==
    IF n = 0 THEN {<<>>}
    ELSE Texts(n - 1) \cup {Append(t, ch) : t \in {u \in Texts(n - 1) : Len(u) = n - 1},
                                             ch \in Characters}
Limits == 0..MaxLimit

\* String.prototype.substring(0, end): an end below 0 counts as 0, an end
\* beyond the length as the length
substring(text, end) ==
    SubSeq(text, 1, IF end < 0 THEN 0 ELSE IF end > Len(text) THEN Len(text) ELSE end)

truncate(text, limit) ==
    IF Len(text) = 0 THEN <<>>
    ELSE IF Len(text) <= limit THEN text
    ELSE substring(text, limit - Len(ELLIPSIS)) \o ELLIPSIS

NewTruncated == [text |-> <<>>, limit |-> 0, result |-> <<>>, called |-> FALSE]

Truncate(text, limit) ==
    /\ truncated' = [text |-> text, limit |-> limit, result |-> truncate(text, limit),
                     called |-> TRUE]
    /\ UNCHANGED <<errorPost, actionRow, serviceVars, msgs, interactions, acquisitions, configVars, retryVars,
                   pureVars, rateVars>>

TruncateNext == \E text \in Texts(MaxText), limit \in Limits : Truncate(text, limit)

(***************************************************************************)
(* InteractionService: the handler map, listen() and stop(), and the       *)
(* client's list of interactionCreate listeners.  Every evaluation of      *)
(* this.handleInteraction.bind(this) yields a new function: the bound      *)
(* functions are numbered in the order they are made (binds).  log is the  *)
(* list of registerHandler and unregisterHandler calls made so far;        *)
(* invoked lists the handlers that the last emit or the last direct call   *)
(* of handleInteraction invoked, result how that direct call went on.      *)
(***************************************************************************)
CustomIds == {"a", "b"}
ButtonHandlers == {"h1", "h2"}
NoHandler == "none"
Interactions == [isButton : BOOLEAN, customId : CustomIds]
NoInteraction == [isButton |-> FALSE, customId |-> "none"]

NewDispatch ==
    [isListening |-> FALSE, eventListeners |-> <<>>, binds |-> 0,
     handlers |-> [id \in CustomIds |-> NoHandler], log |-> <<>>,
     call |-> "none", interaction |-> NoInteraction, invoked |-> <<>>, result |-> "none"]

\* the client's on(event, listener) and off(event, listener) on the list
\* of the event's listeners
on(listeners, listener) == Append(listeners, listener)
off(listeners, listener) ==
    LET found == {i \in 1..Len(listeners) : listeners[i] = listener}
    IN IF found = {} THEN listeners
       ELSE LET index == CHOOSE i \in found : \A j \in found : i <= j
            IN SubSeq(listeners, 1, index - 1) \o SubSeq(listeners, index + 1, Len(listeners))

\* the handlers one call of handleInteraction invokes
HandlersInvoked(handlers, interaction) ==
    IF ~interaction.isButton THEN <<>>
    ELSE IF handlers[interaction.customId] = NoHandler THEN <<>>
    ELSE <<handlers[interaction.customId]>>

\* emit(event, interaction): every listener, a bound handleInteraction of
\* the service, is called with the interaction
emit(listeners, handlers, interaction) ==
    [i \in 1..(Len(listeners) * Len(HandlersInvoked(handlers, interaction))) |->
        HandlersInvoked(handlers, interaction)[1]]

Called(d, name) ==
    [d EXCEPT !.call = name, !.interaction = NoInteraction, !.invoked = <<>>, !.result = "none"]

DispatchFrame ==
    UNCHANGED <<errorPost, actionRow, truncated, embed, msgs, interactions, acquisitions,
                configVars, retryVars, pureVars, rateVars>>

\* mutant: a customId that has a handler keeps it
RegisterHandler_KeepFirst(customId, handler) ==
    /\ Len(dispatch.log) < MaxRegistrations
    /\ dispatch' = [Called(dispatch, "registerHandler") EXCEPT
           !.handlers[customId] = IF @ = NoHandler THEN handler ELSE @,
           !.log = Append(@, [op |-> "register", customId |-> customId, handler |-> handler])]
    /\ DispatchFrame

RegisterHandler(customId, handler) ==
    /\ Len(dispatch.log) < MaxRegistrations
    /\ dispatch' = [Called(dispatch, "registerHandler") EXCEPT
           !.handlers[customId] = handler,
           !.log = Append(@, [op |-> "register", customId |-> customId, handler |-> handler])]
    /\ DispatchFrame

UnregisterHandler(customId) ==
    /\ Len(dispatch.log) < MaxRegistrations
    /\ dispatch' = [Called(dispatch, "unregisterHandler") EXCEPT
           !.handlers[customId] = NoHandler,
           !.log = Append(@, [op |-> "unregister", customId |-> customId,
                              handler |-> NoHandler])]
    /\ DispatchFrame

Listen ==
    /\ dispatch.isListening \/ dispatch.binds < MaxBinds
    /\ dispatch' =
           IF dispatch.isListening THEN Called(dispatch, "listen")
           ELSE [Called(dispatch, "listen") EXCEPT
                    !.binds = @ + 1,
                    !.eventListeners = on(@, dispatch.binds + 1),
                    !.isListening = TRUE]
    /\ DispatchFrame

Stop ==
    /\ ~dispatch.isListening \/ dispatch.binds < MaxBinds
    /\ dispatch' =
           IF ~dispatch.isListening THEN Called(dispatch, "stop")
           ELSE [Called(dispatch, "stop") EXCEPT
                    !.binds = @ + 1,
                    !.eventListeners = off(@, dispatch.binds + 1),
                    !.isListening = FALSE]
    /\ DispatchFrame

\* the client emits interactionCreate
EmitInteraction(interaction) ==
    /\ dispatch' = [dispatch EXCEPT
           !.call = "emit", !.interaction = interaction,
           !.invoked = emit(dispatch.eventListeners, dispatch.handlers, interaction),
           !.result = "none"]
    /\ DispatchFrame

\* handleInteraction is called, up to its await of the handler
\* ("handler") or its return without one ("resolved")
CallHandleInteraction(interaction) ==
    /\ dispatch' = [dispatch EXCEPT
           !.call = "handleInteraction", !.interaction = interaction,
           !.invoked = HandlersInvoked(dispatch.handlers, interaction),
           !.result = IF HandlersInvoked(dispatch.handlers, interaction) = <<>>
                      THEN "resolved" ELSE "handler"]
    /\ DispatchFrame

DispatchNext ==
    \/ \E customId \in CustomIds, handler \in ButtonHandlers : RegisterHandler(customId, handler)
    \/ \E customId \in CustomIds : UnregisterHandler(customId)
    \/ Listen
    \/ Stop
    \/ \E interaction \in Interactions : EmitInteraction(interaction)
    \/ \E interaction \in Interactions : CallHandleInteraction(interaction)

(***************************************************************************)
(* The payload of sendMessage / updateMessage for options with one embed.  *)
(* Every attempt that reaches the build runs new EmbedBuilder(embedOpts)   *)
(* on the caller's EmbedOptions object.  Of an EmbedOptions the model      *)
(* keeps suppressAdultImages, whether thumbnail and image are set, the     *)
(* color, and the description as its kind ("absent", "empty" for '',       *)
(* "text") with the number of warning prefixes in front of the text, which *)
(* is shorter than the description limit.  pc:                             *)
(*   "attempt"  the operation of an attempt has been invoked               *)
(*   "sending"  the payload is built, channel.send / message.edit pending  *)
(***************************************************************************)
Description(kind, warnings) == [kind |-> kind, warnings |-> warnings]
Colors == {"undefined", "0", "#FF5733"}
WARNING_COLOR == "#FF8C00"
EmbedOptionsSet ==
    [suppressAdultImages : BOOLEAN,
     description : {Description(k, 0) : k \in {"absent", "empty", "text"}},
     thumbnail : BOOLEAN, image : BOOLEAN, color : Colors]

\* new EmbedBuilder(options): the options object afterwards and the embed
\* built
fromOptions(options) ==
    LET suppressed ==
            IF options.suppressAdultImages
            THEN [options EXCEPT
                     !.thumbnail = FALSE,
                     !.image = FALSE,
                     !.description = IF @.kind = "text" THEN Description("text", @.warnings + 1)
                                     ELSE @,
                     !.color = IF @ \in {"undefined", "0"} THEN WARNING_COLOR ELSE @]
            ELSE options
    IN [options |-> suppressed,
        embed |-> [description |-> IF suppressed.description.kind = "text"
                                   THEN suppressed.description ELSE Description("absent", 0),
                   color |-> suppressed.color,
                   thumbnail |-> suppressed.thumbnail,
                   image |-> suppressed.image]]

NewEmbed ==
    [pc |-> "idle",
     original |-> [suppressAdultImages |-> FALSE, description |-> Description("absent", 0),
                   thumbnail |-> FALSE, image |-> FALSE, color |-> "undefined"],
     options |-> [suppressAdultImages |-> FALSE, description |-> Description("absent", 0),
                  thumbnail |-> FALSE, image |-> FALSE, color |-> "undefined"],
     payloads |-> <<>>]

PayloadFrame ==
    UNCHANGED <<errorPost, actionRow, truncated, dispatch, msgs, interactions, acquisitions,
                configVars, retryVars, pureVars, rateVars>>

\* sendMessage(channelId, {embeds: [options]}) is called; original is the
\* value the caller passed
SendMessageWith(options) ==
    /\ embed.pc = "idle"
    /\ embed' = [pc |-> "attempt", original |-> options, options |-> options,
                 payloads |-> <<>>]
    /\ PayloadFrame

\* the attempt has its tokens and its channel and builds the payload
BuildPayload ==
    /\ embed.pc = "attempt"
    /\ embed' = [embed EXCEPT !.pc = "sending",
                              !.options = fromOptions(embed.options).options,
                              !.payloads = Append(@, fromOptions(embed.options).embed)]
    /\ PayloadFrame

\* channel.send(payload) settles: on a retryable failure with retries left
\* RetryHandler.execute runs the operation again
SendSettles(sent) ==
    /\ embed.pc = "sending"
    /\ embed' = [embed EXCEPT !.pc = IF sent THEN "resolved"
                                     ELSE IF Len(embed.payloads) <= maxRetries THEN "attempt"
                                     ELSE "rejected"]
    /\ PayloadFrame

PayloadNext ==
    \/ \E options \in EmbedOptionsSet : SendMessageWith(options)
    \/ BuildPayload
    \/ \E sent \in BOOLEAN : SendSettles(sent)


ClientInit ==
    /\ errorPost = NewErrorPost
    /\ actionRow = NewActionRow
    /\ truncated = NewTruncated
    /\ dispatch = NewDispatch
    /\ embed = NewEmbed

\* a MessageService built with any of the modelled options, on a new
\* RateLimitService
MessageServiceInit ==
    /\ maxRetries \in 0..MaxRetriesBound
    /\ baseDelay \in BaseDelays
    /\ retryableCodes = DEFAULT_RETRYABLE_CODES
    /\ RetryInit
    /\ PureInit
    /\ RateInit
    /\ MsgInit
    /\ InteractionInit
    /\ AcquisitionInit
    /\ ClientInit

DefaultConfigInit ==
    /\ maxRetries = 3
    /\ baseDelay = 1000
    /\ retryableCodes = DEFAULT_RETRYABLE_CODES

\* a RetryHandler built with any of the modelled options
Init ==
    /\ RetryConfigInit
    /\ RetryInit
    /\ PureInit
    /\ RateInit
    /\ MsgInit
    /\ InteractionInit
    /\ AcquisitionInit
    /\ ClientInit

\* a RetryHandler with the default delay and codes and any maxRetries
RetryLiveInit ==
    /\ maxRetries \in 0..MaxRetriesBound
    /\ baseDelay = 1000
    /\ retryableCodes = DEFAULT_RETRYABLE_CODES
    /\ RetryInit
    /\ PureInit
    /\ RateInit
    /\ MsgInit
    /\ InteractionInit
    /\ AcquisitionInit
    /\ ClientInit

\* a RateLimitService right after construction
ServiceInit ==
    /\ DefaultConfigInit
    /\ RetryInit
    /\ PureInit
    /\ RateInit
    /\ MsgInit
    /\ InteractionInit
    /\ AcquisitionInit
    /\ ClientInit

SpecRetry == Init /\ [][RetryNext]_vars
SpecRetryLive == RetryLiveInit /\ [][RetryNext]_vars /\ RetryFairness
SpecPure == Init /\ [][PureNext]_vars
SpecRate == ServiceInit /\ [][RateNext]_vars
SpecQuota == ServiceInit /\ [][QuotaNext]_vars
SpecMessage == MessageServiceInit /\ [][MessageNext]_vars
SpecInteraction == ServiceInit /\ [][InteractionNext]_vars
SpecPostError == MessageServiceInit /\ [][PostErrorNext]_vars
SpecActionRow == ServiceInit /\ [][ActionRowNext]_vars
SpecTruncate == ServiceInit /\ [][TruncateNext]_vars
SpecDispatch == ServiceInit /\ [][DispatchNext]_vars
SpecPayload == ServiceInit /\ [][PayloadNext]_vars
SpecAcquisition == ServiceInit /\ [][AcquisitionNext]_vars
SpecAcquisitionLive == ServiceInit /\ [][AcquisitionLiveNext]_vars /\ AcquisitionFairness

(***************************************************************************)
(* Properties of RetryHandler                                              *)
(***************************************************************************)
\* The classification as the specification words it: a failure is retried
\* iff it is a RateLimitError, or an object that carries one of the network
\* codes, or an object that carries a numeric status / statusCode / code
\* that is a retryable code.
RetriedAsStated(error, codes) ==
    \/ error.kind = "RateLimitError"
    \/ /\ error.kind = "object"
       /\ \/ error.code.type = "string" /\ error.code.str \in networkErrorCodes
          \/ \E f \in {error.status, error.statusCode, error.code} :
                 f.type = "number" /\ f.num \in codes

\* The classification with the order of the fields made explicit: of the
\* numeric fields of the object only the first among status, statusCode,
\* code counts.
FirstNumericField(error) ==
    LET fields == <<error.status, error.statusCode, error.code>>
        numeric == {i \in 1..3 : fields[i].type = "number"}
    IN IF numeric = {} THEN Absent
       ELSE fields[CHOOSE i \in numeric : \A j \in numeric : i <= j]

RetriedAmended(error, codes) ==
    \/ error.kind = "RateLimitError"
    \/ /\ error.kind = "object"
       /\ \/ error.code.type = "string" /\ error.code.str \in networkErrorCodes
          \/ FirstNumericField(error).type = "number" /\ FirstNumericField(error).num \in codes

Finished(e) == execPc[e] \in {"resolved", "rejected"}
LastFailed(e) == lastSettled[e].state = "rejected"
LastFailedRetryably(e) == LastFailed(e) /\ RetriedAmended(lastSettled[e].value, retryableCodes)
LastFailedFatally(e) == LastFailed(e) /\ ~RetriedAmended(lastSettled[e].value, retryableCodes)

\* C4: execute invokes the operation at most maxRetries + 1 times; an
\* execute that ended on a retryable failure (so every invocation failed
\* retryably) made exactly maxRetries + 1 invocations and rejected.
C4_RetryBudget ==
    \A e \in Execs :
        /\ invocations[e] <= maxRetries + 1
        /\ (Finished(e) /\ LastFailedRetryably(e)) =>
               (invocations[e] = maxRetries + 1 /\ outcome[e].state = "rejected")

C4_Witness ==
    \E e \in Execs :
        /\ maxRetries = 2
        /\ execPc[e] = "rejected"
        /\ LastFailedRetryably(e)
        /\ invocations[e] = 3

\* C5: once an invocation has failed with a Fatal error, at whatever
\* attempt, execute has rejected: no invocation follows (the failed one is
\* invocation attempt + 1 and the last) and no sleep follows (there is one
\* sleep per earlier attempt only); a Fatal first invocation means exactly
\* one invocation and no sleep at all.
C5_FailFast ==
    \A e \in Execs :
        LastFailedFatally(e) =>
            /\ execPc[e] = "rejected"
            /\ invocations[e] = attempt[e] + 1
            /\ Len(sleeps[e]) = attempt[e]
            /\ lastSettled[e].value.ident = invocations[e]
            /\ (lastSettled[e].value.ident = 1 => invocations[e] = 1 /\ sleeps[e] = <<>>)

C5_Witness ==
    \E e \in Execs :
        /\ LastFailedFatally(e)
        /\ lastSettled[e].value.status = Num(403)
        /\ invocations[e] = 1
        /\ execPc[e] = "rejected"

\* C6: whenever execute rejects, the rejection value is the error raised by
\* the last invocation (same value, same throw), never the synthetic
\* 'Max retries exceeded' error; and execute never resolves when the last
\* invocation failed.
C6_OriginalError ==
    \A e \in Execs :
        /\ outcome[e].state = "rejected" =>
               /\ LastFailed(e)
               /\ outcome[e].value = lastSettled[e].value
               /\ outcome[e].value.ident = invocations[e]
               /\ outcome[e].value # SyntheticError
        /\ LastFailed(e) => outcome[e].state # "resolved"

C6_Witness ==
    \E e \in Execs :
        /\ outcome[e].state = "rejected"
        /\ invocations[e] >= 2
        /\ outcome[e].value.kind = "null"

\* C7: when invocation k + 1 (attempt k <= maxRetries) succeeds, execute
\* resolves with that invocation's result, after exactly k + 1 invocations
\* and k sleeps, and makes no further invocation.
C7_SuccessPath ==
    \A e \in Execs :
        lastSettled[e].state = "resolved" =>
            /\ execPc[e] = "resolved"
            /\ outcome[e] = lastSettled[e]
            /\ outcome[e].value = WithIdent(OpResult, attempt[e] + 1)
            /\ invocations[e] = attempt[e] + 1
            /\ attempt[e] <= maxRetries

C7_Witness ==
    \E e \in Execs :
        /\ outcome[e].state = "resolved"
        /\ attempt[e] = 2
        /\ invocations[e] = 3

\* C8 as stated: the classifier answers "retry" iff the failure is a
\* RateLimitError, or an object carrying a network code, or an object
\* carrying a numeric status / statusCode / code that is among the
\* retryable codes.
C8_AsStated ==
    clsError # NoValue => (clsResult <=> RetriedAsStated(clsError, retryableCodes))

\* C8 amended: the classifier answers "retry" iff the failure is a
\* RateLimitError, or is an object that carries a network code, or is an
\* object whose first numeric field among status, statusCode, code (in
\* this order) is among the retryable codes.
C8_Classification ==
    clsError # NoValue => (clsResult <=> RetriedAmended(clsError, retryableCodes))

C8_Witness ==
    /\ clsError = JSValue("object", Str("503"), Num(503), Num(403), 0)
    /\ clsResult = TRUE
    /\ retryableCodes = DEFAULT_RETRYABLE_CODES

\* C9: calculateDelay(attempt) is baseDelay * 2^attempt; with baseDelay
\* 1000 the delays of attempts 0..3 are 1000, 2000, 4000, 8000.
C9_ExponentialDelay ==
    delayArg >= 0 =>
        /\ delayResult = baseDelay * 2^delayArg
        /\ (baseDelay = 1000 /\ delayArg <= 3) =>
               delayResult = <<1000, 2000, 4000, 8000>>[delayArg + 1]

C9_Witness ==
    /\ baseDelay = 1000
    /\ delayArg = 3
    /\ delayResult = 8000

\* C10: the i-th sleep of an execute call lasts baseDelay * 2^(i-1) ms and
\* lies between invocation i and invocation i + 1: a call that is sleeping
\* has slept once per invocation, any other call once per invocation but
\* the last; so a call whose invocations all failed retryably has slept
\* exactly maxRetries times and not after its final attempt.
C10_Backoff ==
    \A e \in Execs :
        /\ \A i \in 1..Len(sleeps[e]) : sleeps[e][i] = baseDelay * 2^(i - 1)
        /\ execPc[e] = "sleeping" => Len(sleeps[e]) = invocations[e]
        /\ execPc[e] \in {"invoking", "resolved", "rejected"} => Len(sleeps[e]) = invocations[e] - 1
        /\ (execPc[e] = "rejected" /\ LastFailedRetryably(e)) => Len(sleeps[e]) = maxRetries

C10_Witness ==
    \E e \in Execs :
        /\ maxRetries = 3
        /\ baseDelay = 1000
        /\ execPc[e] = "rejected"
        /\ sleeps[e] = <<1000, 2000, 4000>>

\* everything execute call e keeps between its suspension points
RetryState(e) ==
    <<execPc[e], attempt[e], lastError[e], invocations[e], sleeps[e], lastSettled[e], outcome[e]>>
Stepped(e) == RetryState(e)' # RetryState(e)

\* C21: concurrent execute calls on one RetryHandler share no retry state.
\* Under every interleaving a step of one call changes nothing of another
\* call, each call invokes its operation at most maxRetries + 1 times, the
\* attempt index of a call is the number of its own sleeps, and its i-th
\* backoff delay is baseDelay * 2^(i-1) whatever the other calls do.
C21_NoSharedRetryState ==
    /\ [](\A e \in Execs :
              /\ invocations[e] <= maxRetries + 1
              /\ execPc[e] \in {"invoking", "resolved", "rejected"} => attempt[e] = Len(sleeps[e])
              /\ \A i \in 1..Len(sleeps[e]) : sleeps[e][i] = calculateDelay(baseDelay, i - 1))
    /\ [][\A e \in Execs : Stepped(e) => \A f \in Execs \ {e} : ~Stepped(f)]_vars

\* two calls in flight at once, one in its first backoff sleep after the
\* other has already slept twice and failed for good
C21_Witness ==
    \E e \in Execs :
        \E f \in Execs \ {e} :
            /\ execPc[e] = "sleeping" /\ attempt[e] = 0 /\ Len(sleeps[e]) = 1
            /\ execPc[f] = "rejected" /\ attempt[f] = 2 /\ Len(sleeps[f]) = 2
            /\ lastError[e] # lastError[f]

\* C23: provided each invocation of the operation terminates, every
\* execute call, for every maxRetries >= 0, eventually resolves or rejects,
\* and it never makes more than maxRetries + 1 invocations nor more than
\* maxRetries backoff sleeps.
C23_ExecuteFinishes ==
    /\ \A e \in Execs : (execPc[e] # "idle") ~> Finished(e)
    /\ [](\A e \in Execs : invocations[e] <= maxRetries + 1 /\ Len(sleeps[e]) <= maxRetries)

\* the longest run: every invocation failed retryably, the call has used
\* all its invocations and sleeps and is over; the other call was over
\* after its first invocation
C23_Witness ==
    \E e \in Execs :
        \E f \in Execs \ {e} :
            /\ maxRetries = MaxRetriesBound
            /\ Finished(e)
            /\ invocations[e] = maxRetries + 1
            /\ Len(sleeps[e]) = maxRetries
            /\ Finished(f)
            /\ invocations[f] = 1

(***************************************************************************)
(* Properties of RateLimitService                                          *)
(***************************************************************************)
Capacity(b) == IF b = "global" THEN GLOBAL_CAPACITY ELSE CHANNEL_CAPACITY
RefillRate(b) == IF b = "global" THEN GLOBAL_REFILL_RATE ELSE CHANNEL_REFILL_RATE

\* the grants of bucket b from the i-th to the j-th, and the shortest
\* interval (in ms) that holds them all
GrantCount(i, j) == j - i + 1
Span(b, i, j) == grants[b][j] - grants[b][i]
Allowance(b, T) == Capacity(b) * Token + RefillRate(b) * T

\* C1: without reset() and with retryAfter >= 0, for the global bucket and
\* for every channel bucket the number of tokens granted in any interval
\* of T ms is at most capacity + refillRate * T / 1000, whatever the
\* interleaving of acquireToken and handleRateLimit calls on the channels.
\* Grants are logged one at a time, so every run of consecutive grants is,
\* in some state, a run that ends at the latest grant: the bound is stated
\* for those.
C1_QuotaBound ==
    \A b \in BucketIds :
        \A i \in 1..Len(grants[b]) :
            GrantCount(i, Len(grants[b])) * Token <= Allowance(b, Span(b, i, Len(grants[b])))

C1_Witness ==
    /\ issued.signals >= 1
    /\ Len(grants["global"]) > GLOBAL_CAPACITY
    /\ \A c \in Channels : Len(grants[c]) > CHANNEL_CAPACITY
    /\ \E c \in Channels :
           \E i \in 1..Len(grants[c]) :
               \E j \in i..Len(grants[c]) :
                   /\ GrantCount(i, j) > CHANNEL_CAPACITY
                   /\ GrantCount(i, j) * Token = Allowance(c, Span(c, i, j))

\* C2: after any sequence of acquireToken, handleRateLimit and reset
\* calls, the tokens of every bucket, global or channel, are at most its
\* capacity right after each refill step.
C2_RefillCapped ==
    \A b \in BucketIds : afterRefill[b] <= Capacity(b) * Token

C2_Witness ==
    /\ issued.signals >= 1
    /\ issued.resets >= 1
    /\ Len(grants["global"]) >= 2
    /\ afterRefill["global"] = GLOBAL_CAPACITY * Token
    /\ \E c \in Channels :
           /\ Len(grants[c]) > CHANNEL_CAPACITY
           /\ afterRefill[c] = CHANNEL_CAPACITY * Token

\* C3: after handleRateLimit(c, r) at time t with r >= 0, and as long as
\* neither reset() nor another handleRateLimit(c, .) follows, no
\* acquireToken(c) is granted its channel token before t + r, be it a call
\* made after the signal or one that was polling the bucket of c when the
\* signal arrived.
C3_CooldownHonoured ==
    \A c \in Channels :
        cooldown[c].active =>
            \A i \in (cooldown[c].mark + 1)..Len(grants[c]) :
                grants[c][i] >= cooldown[c].until

C3_Witness ==
    \E c \in Channels :
        LET d == OtherChannel(c)
        IN /\ cooldown[c].active /\ cooldown[d].active
           /\ cooldown[c].until > cooldown[c].at
           /\ cooldown[d].until > cooldown[d].at
           /\ cooldown[c].polling >= 1
           /\ cooldown[d].polling = 0
           /\ Len(grants[c]) > cooldown[c].mark
           /\ Len(grants[d]) > cooldown[d].mark

RECURSIVE SumOver(_, _)
SumOver(S, f) ==
    IF S = {} THEN 0
    ELSE LET x == CHOOSE y \in S : TRUE IN f[x] + SumOver(S \ {x}, f)

\* the number of suspended calls on channel c that wait at one of pcs
CallsAt(c, pcs) ==
    BagCardinality([k \in {j \in BagToSet(callers) : j.channelId = c /\ j.pc \in pcs}
                        |-> callers[k]])
ChannelGrants == SumOver(Channels, [c \in Channels |-> Len(grants[c])])
PastGlobal == SumOver(Channels, [c \in Channels |-> CallsAt(c, {"channel", "channel_sleep"})])

\* C11: in every acquireToken call the global token is deducted before
\* the channel bucket is looked up or polled, and the call completes only
\* after exactly one global token and one token of its channel have been
\* deducted for it.  In counts: every call that has got to its channel
\* bucket or has completed accounts for exactly one global grant, every
\* completed call for exactly one grant of its channel, and without a
\* signal a channel has a bucket only once a call that holds its global
\* token has looked it up.
C11_GlobalThenChannel ==
    /\ Len(grants["global"]) = ChannelGrants + PastGlobal
    /\ \A c \in Channels :
           (HasBucket(c) /\ ~cooldown[c].active) =>
               Len(grants[c]) + CallsAt(c, {"channel_sleep"}) >= 1

C11_Witness ==
    /\ \E c \in Channels : CallsAt(c, {"global_sleep"}) >= 1
    /\ \E c \in Channels : CallsAt(c, {"channel_sleep"}) >= 1
    /\ \E c \in Channels : HasBucket(c) /\ ~cooldown[c].active /\ Len(grants[c]) >= 1
    /\ ChannelGrants < Len(grants["global"])

\* C12: from a full channel bucket and with global tokens to spare, five
\* acquireToken calls made at one instant on one channel are granted at
\* that instant, without a timed suspension, and a sixth made at that
\* instant sleeps ceil(1000 / 5) = 200 ms and is granted no earlier than
\* that.
C12_BurstThenWait ==
    (issued.bursts = 1 /\ issued.singles = 0 /\ issued.signals = 0 /\ Quiet) =>
        \E c \in Channels :
            LET t0 == grants["global"][1]
            IN /\ Len(grants[c]) \in {CHANNEL_CAPACITY, CHANNEL_CAPACITY + 1}
               /\ \A i \in 1..CHANNEL_CAPACITY : grants[c][i] = t0
               /\ Len(grants[c]) = CHANNEL_CAPACITY =>
                      callers = One(Caller("channel_sleep", c, t0 + 200))
               /\ Len(grants[c]) = CHANNEL_CAPACITY + 1 =>
                      /\ grants[c][CHANNEL_CAPACITY + 1] >= t0 + 200
                      /\ callers = EmptyBag

C12_Witness ==
    /\ issued.bursts = 1 /\ issued.singles = 0 /\ issued.signals = 0
    /\ \E c \in Channels :
           /\ Len(grants[c]) = CHANNEL_CAPACITY + 1
           /\ grants[c][CHANNEL_CAPACITY] = grants["global"][1]
           /\ grants[c][CHANNEL_CAPACITY + 1] = grants["global"][1] + 200

ResetCalled == issued'.resets = issued.resets + 1
SignalCalled == issued'.signals = issued.signals + 1

\* C19: reset() sets tokens = capacity and lastRefill = now on the global
\* bucket and on every existing channel bucket, which cancels any cooldown
\* (a call polling right after is granted), and it neither creates nor
\* removes a channel bucket.
C19_Reset ==
    [][ResetCalled =>
           /\ globalBucket' = FullBucket(globalBucket, now)
           /\ DOMAIN channelBuckets' = DOMAIN channelBuckets
           /\ \A c \in DOMAIN channelBuckets :
                  /\ channelBuckets'[c] = FullBucket(channelBuckets[c], now)
                  /\ acquireFromBucket(channelBuckets'[c], now').granted]_vars

\* a reset has just refilled a channel bucket that a signal had put in
\* cooldown, while the other channel still has no bucket
C19_Witness ==
    /\ issued.resets >= 1
    /\ issued.signals >= 1
    /\ \E c \in Channels :
           /\ DOMAIN channelBuckets = {c}
           /\ channelBuckets[c] = NewBucket(CHANNEL_CAPACITY, CHANNEL_REFILL_RATE, now)
           /\ Len(grants[c]) = 0
           /\ now > 0

\* C20: a channel's bucket comes into existence, with capacity 5,
\* 5 tokens and 5 tokens/s, on the first acquireToken or handleRateLimit
\* that names the channel (so it is first seen one token short of full, or
\* emptied by the signal); every later call for the channel works on the
\* bucket as the previous call left it; and no operation, reset() included,
\* removes a channel id from the map.
C20_LazyBuckets ==
    [][/\ DOMAIN channelBuckets \subseteq DOMAIN channelBuckets'
       /\ \A c \in DOMAIN channelBuckets' \ DOMAIN channelBuckets :
              LET fresh == NewBucket(CHANNEL_CAPACITY, CHANNEL_REFILL_RATE, now)
              IN IF SignalCalled
                 THEN \E r \in RetryAfters :
                          channelBuckets'[c] = [fresh EXCEPT !.tokens = 0, !.lastRefill = now + r]
                 ELSE /\ channelBuckets'[c] = [fresh EXCEPT !.tokens = @ - Token]
                      /\ grants'[c] = <<now>>
       /\ \A c \in DOMAIN channelBuckets :
              \/ channelBuckets'[c] = channelBuckets[c]
              \/ ResetCalled /\ channelBuckets'[c] = FullBucket(channelBuckets[c], now)
              \/ SignalCalled /\ \E r \in RetryAfters :
                     channelBuckets'[c] =
                         [channelBuckets[c] EXCEPT !.tokens = 0, !.lastRefill = now + r]
              \/ channelBuckets'[c] = acquireFromBucket(channelBuckets[c], now).bucket]_vars

C20_Witness ==
    /\ DOMAIN channelBuckets = Channels
    /\ issued.resets >= 1
    /\ \E c \in Channels :
           /\ cooldown[c].active
           /\ cooldown[c].mark = 0
           /\ Len(grants[c]) >= 1
    /\ \E c \in Channels :
           /\ ~cooldown[c].active
           /\ Len(grants[c]) > CHANNEL_CAPACITY

\* C31: handleRateLimit(c, r) changes the bucket of channel c only,
\* creating it if absent and setting its tokens and lastRefill: the global
\* bucket, the buckets of the other channels and the calls in progress are
\* as before, so a call on another channel is granted from its own bucket
\* while c is in cooldown.
C31_SignalFrame ==
    [][SignalCalled =>
           \E c \in Channels :
               /\ globalBucket' = globalBucket
               /\ callers' = callers
               /\ DOMAIN channelBuckets' = DOMAIN channelBuckets \cup {c}
               /\ \A d \in DOMAIN channelBuckets \ {c} : channelBuckets'[d] = channelBuckets[d]
               /\ channelBuckets'[c].tokens = 0
               /\ channelBuckets'[c].lastRefill >= now
               /\ channelBuckets'[c].capacity = getOrCreateChannelBucket(c).capacity
               /\ channelBuckets'[c].refillRate = getOrCreateChannelBucket(c).refillRate]_vars

\* one channel is in cooldown and the other channel, whose bucket existed
\* at the signal, has granted a token since
C31_Witness ==
    \E c \in Channels :
        \E d \in Channels \ {c} :
            /\ cooldown[c].active
            /\ now < cooldown[c].until
            /\ channelBuckets[c].tokens = 0
            /\ Len(grants[d]) >= 2
            /\ grants[d][1] < cooldown[c].at
            /\ grants[d][Len(grants[d])] > cooldown[c].at
            /\ ~cooldown[d].active

\* the bucket is left by this step as a refill now, followed or not by the
\* deduction of a granted token, leaves it
Refilled(before, after) == after = acquireFromBucket(before, now).bucket

\* C32 as stated: the tokens of a bucket are raised by a refill or by
\* reset() only, and handleRateLimit never leaves them higher than they
\* were.
C32_AsStated ==
    [][/\ globalBucket'.tokens > globalBucket.tokens =>
              ResetCalled \/ Refilled(globalBucket, globalBucket')
       /\ \A c \in DOMAIN channelBuckets :
              /\ channelBuckets'[c].tokens > channelBuckets[c].tokens =>
                     ResetCalled \/ Refilled(channelBuckets[c], channelBuckets'[c])
              /\ SignalCalled => channelBuckets'[c].tokens <= channelBuckets[c].tokens]_vars

\* C32: the tokens of a bucket are raised by a refill, by reset(), or by
\* a handleRateLimit call on a bucket whose tokens are negative, which
\* sets them to 0; the bucket handleRateLimit changes has 0 tokens
\* afterwards, more than before exactly when it had fewer than 0.
C32_RaisedOnlyByRefill ==
    [][/\ globalBucket'.tokens > globalBucket.tokens =>
              ResetCalled \/ Refilled(globalBucket, globalBucket')
       /\ \A c \in DOMAIN channelBuckets :
              /\ channelBuckets'[c].tokens > channelBuckets[c].tokens =>
                     \/ ResetCalled
                     \/ Refilled(channelBuckets[c], channelBuckets'[c])
                     \/ SignalCalled /\ channelBuckets[c].tokens < 0
              /\ (SignalCalled /\ channelBuckets'[c] # channelBuckets[c]) =>
                     /\ channelBuckets'[c].tokens = 0
                     /\ channelBuckets'[c].tokens > channelBuckets[c].tokens <=>
                            channelBuckets[c].tokens < 0]_vars

\* a second signal has just set to 0 the tokens of a bucket that the
\* refill of a call during the first cooldown had left negative
C32_Witness ==
    \E c \in Channels :
        /\ issued.signals = 2
        /\ issued.resets = 0
        /\ cooldown[c].active
        /\ cooldown[c].at = now
        /\ afterRefill[c] < 0
        /\ channelBuckets[c].tokens = 0

\* the time a bucket takes to refill one token
TokenTime(b) == Token \div RefillRate(b)

\* C33: a handleRateLimit call on channel c replaces whatever cooldown c
\* was in.  From the latest signal on, made at t2 with retryAfter r2, the
\* bucket is what t2 + r2 and the grants since make it (as long as the
\* refill has not reached the capacity): its tokens are the refill from
\* t2 + r2 to lastRefill less the tokens granted since, so the k-th grant
\* after the signal comes no sooner than k token times after t2 + r2,
\* whatever the earlier signals were.
C33_CooldownReplaced ==
    \A c \in Channels :
        (cooldown[c].active
         /\ (channelBuckets[c].lastRefill - cooldown[c].until) * RefillRate(c)
                <= Capacity(c) * Token) =>
            /\ channelBuckets[c].tokens =
                   (channelBuckets[c].lastRefill - cooldown[c].until) * RefillRate(c)
                   - (Len(grants[c]) - cooldown[c].mark) * Token
            /\ \A i \in (cooldown[c].mark + 1)..Len(grants[c]) :
                   grants[c][i] >= cooldown[c].until + (i - cooldown[c].mark) * TokenTime(c)

\* a second signal, with retryAfter 0, has just replaced a cooldown that
\* had not ended: the last poll of the bucket had left its tokens negative
C33_Witness ==
    \E c \in Channels :
        /\ issued.signals = 2
        /\ issued.resets = 0
        /\ now > 0
        /\ cooldown[c].active
        /\ cooldown[c].at = now
        /\ cooldown[c].until = now
        /\ afterRefill[c] < 0
        /\ channelBuckets[c].lastRefill = now
        /\ \A d \in Channels \ {c} : ~cooldown[d].active

\* call a tries its channel bucket in this step
PollsChannel(a) ==
    /\ acquisitions[a].pc \in {"channel", "channel_sleep"}
    /\ acquisitions'[a] # acquisitions[a]

\* C22: there is no FIFO among waiters.  A call that tries its channel
\* bucket is granted the token in that very step iff the bucket holds at
\* least one token after the refill, whether or not calls made before it
\* are waiting for the same bucket; a sleeping call tries only when its
\* own timer is due; and the calls that wait keep waiting.  So a call made
\* later can be granted before an earlier one that still waits.
C22_NoFifo ==
    [][\A a \in Acqs :
           /\ PollsChannel(a) =>
                  LET c == acquisitions[a].channelId
                      refilled == refillBucket(getOrCreateChannelBucket(c), now)
                  IN /\ acquisitions'[a].pc = "done" <=> refilled.tokens >= Token
                     /\ acquisitions[a].pc = "channel_sleep" => acquisitions[a].wakeAt <= now
                     /\ \A b \in Acqs \ {a} : acquisitions'[b] = acquisitions[b]
           /\ (acquisitions[a].pc # "done" /\ acquisitions'[a].pc = "done") => PollsChannel(a)]_vars

\* the second call has its token of the channel while the first call,
\* made before it on the same channel, is asleep waiting for one, its
\* timer not yet due
C22_Witness ==
    \E a \in Acqs :
        \E b \in Acqs :
            /\ a < b
            /\ acquisitions[a].channelId = acquisitions[b].channelId
            /\ acquisitions[a].pc = "channel_sleep"
            /\ acquisitions[a].wakeAt > now
            /\ acquisitions[b].pc = "done"
            /\ issued.signals = 1

\* C24: when time keeps advancing and only finitely many acquireToken
\* calls and handleRateLimit signals (with finite retryAfter) are made,
\* every acquireToken call eventually returns, and it returns only with
\* its global and its channel token: a call past the global bucket stays
\* past it, and a call is done only from a grant of its channel bucket.
C24_EventuallyGranted ==
    /\ \A a \in Acqs : (acquisitions[a].pc # "idle") ~> (acquisitions[a].pc = "done")
    /\ [][\A a \in Acqs :
              /\ acquisitions'[a].pc = "done" =>
                     acquisitions[a].pc \in {"done", "channel", "channel_sleep"}
              /\ acquisitions[a].pc \in {"channel", "channel_sleep"} =>
                     acquisitions'[a].pc \in {"channel", "channel_sleep", "done"}
              /\ acquisitions[a].pc \in {"idle", "global_sleep"} =>
                     acquisitions'[a].pc \in {"idle", "global_sleep", "channel"}]_vars

\* all calls have returned although the signals put their channel in
\* cooldown and other traffic had emptied the global bucket
C24_Witness ==
    /\ \A a \in Acqs : acquisitions[a].pc = "done"
    /\ issued.signals = MaxSignals
    /\ issued.bursts >= 1
    /\ \E c \in Channels : \A a \in Acqs : acquisitions[a].channelId = c
    /\ now >= 600

(***************************************************************************)
(* Properties of MessageService                                            *)
(***************************************************************************)
MsgDone(m) == msgs[m].pc \in {"resolved", "rejected"}
TokensTaken(field, S) == SumOver(S, [m \in S |-> msgs[m][field]])

\* C13: in sendMessage, updateMessage and removeMessage every attempt,
\* retries included, completes acquireToken(channelId) before its
\* operation is invoked: an operation invoked n times has taken n global
\* tokens and n tokens of its channel, and a call that is waiting for a
\* token has invoked the operation once per earlier attempt only.
C13_EveryAttemptGoverned ==
    /\ \A m \in Msgs :
           LET call == msgs[m]
           IN /\ call.method \in Methods
              /\ call.invoked = call.channelTaken
              /\ call.pc \in {"operation", "backoff", "resolved", "rejected"} =>
                     /\ call.invoked = call.attempt + 1
                     /\ call.globalTaken = call.invoked
              /\ call.pc = "global_sleep" =>
                     call.invoked = call.attempt /\ call.globalTaken = call.attempt
              /\ call.pc \in {"channel", "channel_sleep"} =>
                     call.invoked = call.attempt /\ call.globalTaken = call.attempt + 1
    /\ Len(grants["global"]) = TokensTaken("globalTaken", Msgs)
    /\ \A c \in Channels :
           Len(grants[c]) = TokensTaken("channelTaken", {m \in Msgs : msgs[m].channelId = c})

C13_Witness ==
    \E m \in Msgs :
        /\ MsgDone(m)
        /\ msgs[m].method = "updateMessage"
        /\ msgs[m].invoked = 3
        /\ Len(grants["global"]) = 3
        /\ Len(grants[msgs[m].channelId]) = 3
        /\ grants[msgs[m].channelId][3] > grants["global"][3]

\* call m holds the global token of its attempt: it waits for its channel
\* bucket or its operation runs
HoldsGlobalToken(m) == msgs[m].pc \in {"channel", "channel_sleep", "operation"}

\* C34: a global token once taken is never given back.  The steps of a
\* call that holds its global token (waiting for its channel bucket, the
\* operation failing or succeeding) leave the global bucket as it is; the
\* tokens of the global bucket rise only by a refill or by reset(); and,
\* without reset(), the tokens left are at most the capacity plus the
\* refill so far less one token per grant, waits and failed operations
\* included.
C34_NoRefund ==
    /\ [](issued.resets = 0 =>
             globalBucket.tokens + Len(grants["global"]) * Token
                 <= Allowance("global", globalBucket.lastRefill))
    /\ [][/\ globalBucket'.tokens > globalBucket.tokens =>
                 ResetCalled \/ globalBucket' = acquireFromBucket(globalBucket, now).bucket
          /\ \A m \in Msgs :
                 (HoldsGlobalToken(m) /\ msgs'[m] # msgs[m]) => globalBucket' = globalBucket]_vars

\* after an operation that failed with a 429, the next attempt has taken
\* its global token and sleeps on the bucket of the channel in cooldown
C34_Witness ==
    \E m \in Msgs :
        /\ issued.resets = 0
        /\ msgs[m].pc = "channel_sleep"
        /\ msgs[m].attempt >= 1
        /\ msgs[m].rateLimited >= 1
        /\ cooldown[msgs[m].channelId].active
        /\ msgs[m].globalTaken = msgs[m].attempt + 1
        /\ globalBucket.lastRefill = now
        /\ globalBucket.tokens = (GLOBAL_CAPACITY - 1) * Token

Settles(m) == msgs[m].pc = "operation" /\ msgs'[m].pc # "operation"

\* C14: when the operation run by executeWithRateLimit(c, op) fails with
\* status, statusCode or code 429, handleRateLimit(c, retryAfter) has been
\* applied to the bucket of c by the time the failure leaves, and what
\* leaves is a RateLimitError with that retryAfter and channel c; when it
\* fails with anything else no bucket changes and the error leaves as the
\* operation threw it.
C14_RateLimitSignal ==
    [][\A m \in Msgs :
           (Settles(m) /\ msgs'[m].pc # "resolved") =>
               LET c == msgs[m].channelId
                   failure == msgs'[m].transport
                   thrown == msgs'[m].thrown
               IN IF HasStatus(failure, 429)
                  THEN /\ thrown.kind = "RateLimitError"
                       /\ thrown.channelId = Str(c)
                       /\ thrown.retryAfter.type = "number"
                       /\ channelBuckets' =
                              SetBucket(c, [getOrCreateChannelBucket(c) EXCEPT
                                                !.tokens = 0,
                                                !.lastRefill = now + thrown.retryAfter.num])
                       /\ globalBucket' = globalBucket
                  ELSE /\ channelBuckets' = channelBuckets
                       /\ globalBucket' = globalBucket
                       /\ thrown.kind # "RateLimitError"
                       /\ thrown.kind = "object" => thrown = failure]_vars

C14_Witness ==
    \E m \in Msgs :
        LET c == msgs[m].channelId
        IN /\ msgs[m].pc = "backoff"
           /\ msgs[m].thrown = NewRateLimitError(300, c)
           /\ channelBuckets[c].tokens = 0
           /\ channelBuckets[c].lastRefill = now + 300
           /\ msgs[m].attempt >= 1

\* C15: for the three message methods, a failure of the Discord client
\* with status 403 ends the call with a PermissionError and one with
\* status 404 with a ChannelNotFoundError, with no attempt after the one
\* that failed so (a single attempt when it is the first); a 429 at each of
\* the maxRetries + 1 attempts ends the call with a RateLimitError.
C15_TypedErrors ==
    \A m \in Msgs :
        LET call == msgs[m]
        IN /\ call.transport.status \in {Num(403), Num(404)} =>
                  /\ call.pc = "rejected"
                  /\ call.thrown.kind = IF call.transport.status = Num(403)
                                        THEN "PermissionError" ELSE "ChannelNotFoundError"
                  /\ call.thrown.channelId = Str(call.channelId)
                  /\ call.invoked = call.attempt + 1
                  /\ call.attempt = 0 => call.invoked = 1
           /\ call.rateLimited = maxRetries + 1 =>
                  /\ call.pc = "rejected"
                  /\ call.thrown.kind = "RateLimitError"
                  /\ call.invoked = maxRetries + 1

C15_Witness ==
    \E m \in Msgs :
        /\ maxRetries = 2
        /\ msgs[m].method = "removeMessage"
        /\ msgs[m].rateLimited = 3
        /\ msgs[m].pc = "rejected"
        /\ msgs[m].thrown.kind = "RateLimitError"

\* C18: a call suspended in a token wait or in a backoff sleep is resumed
\* only when its full interval has passed: every sleep is set for the
\* whole interval (20 ms on the global bucket, 200 ms on a channel bucket,
\* baseDelay * 2^attempt in execute), a sleeping call takes no step before
\* that time, and reset() leaves every sleeping call asleep.
C18_NoEarlyResume ==
    [][\A m \in Msgs :
           /\ (MsgSleeping(m) /\ msgs'[m] # msgs[m]) => msgs[m].wakeAt <= now
           /\ (MsgSleeping(m) /\ ResetCalled) => msgs'[m] = msgs[m]
           /\ (msgs'[m] # msgs[m] /\ msgs'[m].pc = "global_sleep") =>
                  msgs'[m].wakeAt = now + 20
           /\ (msgs'[m] # msgs[m] /\ msgs'[m].pc = "channel_sleep") =>
                  msgs'[m].wakeAt = now + 200
           /\ (msgs'[m] # msgs[m] /\ msgs'[m].pc = "backoff") =>
                  msgs'[m].wakeAt = now + baseDelay * MathPow(2, msgs'[m].attempt)]_vars

\* tokens are there (reset() has refilled the bucket) and the call that
\* waits for one is still asleep
C18_Witness ==
    \E m \in Msgs :
        /\ issued.resets = 1
        /\ msgs[m].pc = "channel_sleep"
        /\ msgs[m].wakeAt > now
        /\ msgs[m].attempt >= 1
        /\ acquireFromBucket(channelBuckets[msgs[m].channelId], now).granted

(***************************************************************************)
(* Properties of InteractionService                                        *)
(***************************************************************************)
Elapsed == interactions.finishedAt - interactions.startTime
TimedOut == interactions.error = "InteractionTimeoutError"
Rejecting == interactions.pc \in {"replying", "rejected"}

\* C16: when the handler returns normally, handleInteraction rejects with
\* InteractionTimeoutError iff at that moment the interaction is neither
\* replied nor deferred and more than 3000 ms have passed since dispatch
\* (3100 ms unacknowledged: timeout; acknowledged at 1000 ms and finished
\* at 5000 ms: none; unacknowledged at exactly 3000 ms: none); otherwise it
\* resolves.
C16_Deadline ==
    interactions.handler = "returned" =>
        /\ (Rejecting /\ TimedOut) <=> (~interactions.acknowledged /\ Elapsed > 3000)
        /\ ~(Rejecting /\ TimedOut) => (interactions.pc = "resolved" /\ interactions.error = "none")
        /\ (~interactions.acknowledged /\ Elapsed = 3100) => (Rejecting /\ TimedOut)
        /\ (~interactions.acknowledged /\ Elapsed = 3000) => interactions.pc = "resolved"
        /\ interactions.acknowledged => interactions.pc = "resolved"

C16_Witness ==
    /\ interactions.handler = "returned"
    /\ interactions.pc = "rejected"
    /\ TimedOut
    /\ ~interactions.acknowledged
    /\ Elapsed = 3100

\* C17, as the specification has it: a handler that throws more than
\* 3000 ms after dispatch, the interaction never acknowledged, makes
\* handleInteraction raise InteractionTimeoutError.
C17_DeadlineOnFailure ==
    (interactions.handler = "threw" /\ ~interactions.acknowledged /\ Elapsed > 3000) => TimedOut

\* the calls of the Discord API made so far by the package itself: the
\* invocations of the message operations and the error replies of
\* handleInteraction
ApiCalls == TokensTaken("invoked", Msgs) + interactions.errorReplies

\* C25, as the architecture has it: every call the package issues to the
\* Discord API, interaction replies included, is made inside
\* executeWithRateLimit, so only after a token acquisition of its own has
\* completed: there are at least as many grants of the global bucket as
\* calls of the API.
C25_RateLimitingFirst ==
    ApiCalls <= Len(grants["global"])

\* call a is granted its global token, its channel token, in this step
GlobalGrant(a) ==
    acquisitions[a].pc \in {"idle", "global_sleep"} /\ acquisitions'[a].pc = "channel"
ChannelGrant(a) ==
    acquisitions[a].pc \in {"channel", "channel_sleep"} /\ acquisitions'[a].pc = "done"
\* the tokens of the bucket, as they are or as a refill now leaves them
Available(bucket) == Min(bucket.tokens, refillBucket(bucket, now).tokens)

\* C30: under every interleaving of concurrent acquireToken calls, a step
\* grants at most one token, to one call, and lowers the tokens of the
\* bucket by exactly one token from a refilled value of at least one;
\* tokens are taken from a bucket by a grant or by handleRateLimit only,
\* so no token is consumed twice; and while handleRateLimit has not been
\* called the tokens of every bucket are within [0, capacity].
C30_NoOversubscription ==
    /\ [](issued.signals = 0 =>
             /\ globalBucket.tokens >= 0
             /\ globalBucket.tokens <= globalBucket.capacity * Token
             /\ \A c \in DOMAIN channelBuckets :
                    /\ channelBuckets[c].tokens >= 0
                    /\ channelBuckets[c].tokens <= channelBuckets[c].capacity * Token)
    /\ [][/\ \A a \in Acqs :
                 /\ GlobalGrant(a) =>
                        LET refilled == refillBucket(globalBucket, now)
                        IN /\ refilled.tokens >= Token
                           /\ globalBucket'.tokens = refilled.tokens - Token
                           /\ channelBuckets' = channelBuckets
                           /\ \A b \in Acqs \ {a} : acquisitions'[b] = acquisitions[b]
                 /\ ChannelGrant(a) =>
                        LET c == acquisitions[a].channelId
                            refilled == refillBucket(getOrCreateChannelBucket(c), now)
                        IN /\ refilled.tokens >= Token
                           /\ channelBuckets'[c].tokens = refilled.tokens - Token
                           /\ globalBucket' = globalBucket
                           /\ \A d \in DOMAIN channelBuckets \ {c} :
                                  channelBuckets'[d] = channelBuckets[d]
                           /\ \A b \in Acqs \ {a} : acquisitions'[b] = acquisitions[b]
          /\ globalBucket'.tokens < Available(globalBucket) => \E a \in Acqs : GlobalGrant(a)
          /\ \A c \in DOMAIN channelBuckets :
                 channelBuckets'[c].tokens < Available(channelBuckets[c]) =>
                     \/ \E a \in Acqs : ChannelGrant(a) /\ acquisitions[a].channelId = c
                     \/ issued'.signals = issued.signals + 1]_vars

\* every call was made before the continuation of any of them ran: each
\* has taken one token of the global bucket and waits to resume
C30_Witness ==
    /\ issued.signals = 0
    /\ \A a \in Acqs : acquisitions[a].pc = "channel"
    /\ globalBucket.tokens = (GLOBAL_CAPACITY - NAcq) * Token

(***************************************************************************)
(* Properties of DiscordNotifier and of the builders                       *)
(***************************************************************************)
Configured == Truthy(errorPost.errorChannelId)

\* C26: postError posts to the error channel first when errorChannelId is
\* configured; it posts to the primary channel only if the error channel
\* is not configured or the post to it failed; it stops after the first
\* successful post, resolving to that message; and when every post has
\* failed it resolves to undefined and does not reject.
C26_ErrorChannelFallback ==
    errorPost.pc # "idle" =>
        /\ Configured => errorPost.posts[1] = errorPost.errorChannelId.str
        /\ ~Configured => errorPost.posts = <<PrimaryChannel>>
        /\ Len(errorPost.posts) \in {1, 2}
        /\ Len(errorPost.posts) = 2 =>
               Configured /\ errorPost.posts[2] = PrimaryChannel /\ errorPost.failures >= 1
        /\ errorPost.pc \in {"error_channel", "primary_channel", "resolved"}
        /\ errorPost.pc = "error_channel" => errorPost.failures = 0
        /\ errorPost.pc = "primary_channel" => errorPost.failures = Len(errorPost.posts) - 1
        /\ errorPost.pc = "resolved" =>
               \/ /\ errorPost.result = "message"
                  /\ msgs[1].pc = "resolved"
                  /\ msgs[1].channelId = errorPost.posts[Len(errorPost.posts)]
                  /\ errorPost.failures = Len(errorPost.posts) - 1
               \/ /\ errorPost.result = "undefined"
                  /\ msgs[1].pc = "rejected"
                  /\ errorPost.failures = Len(errorPost.posts)
                  /\ Len(errorPost.posts) = IF Configured THEN 2 ELSE 1

\* the post to the error channel and then the post to the primary channel
\* failed, the second after its retries, and postError resolved to
\* undefined
C26_Witness ==
    /\ errorPost.errorChannelId = Str("c2")
    /\ errorPost.posts = <<"c2", PrimaryChannel>>
    /\ errorPost.pc = "resolved"
    /\ errorPost.result = "undefined"
    /\ msgs[1].attempt >= 1
    /\ Len(grants["c2"]) >= 1

\* the step is a call of addComponents
AddComponentsCalled ==
    actionRow'.call = "addComponents" /\ actionRow'.turn # actionRow.turn

\* C27: the discord.js row never holds more than 5 components; a call of
\* addComponents that would bring the row above 5 throws the
\* ValidationError of the limit and leaves the row as it was; a call with
\* buttons that all build and that brings the row to at most 5 returns
\* and adds them.
C27_ComponentLimit ==
    [][AddComponentsCalled =>
          LET total == actionRow.built + actionRow'.added
          IN /\ actionRow'.built <= MAX_COMPONENTS
             /\ total > MAX_COMPONENTS =>
                    /\ actionRow'.thrown = "components"
                    /\ actionRow'.built = actionRow.built
                    /\ actionRow'.components = actionRow.components
             /\ (total <= MAX_COMPONENTS /\ actionRow'.valid) =>
                    /\ actionRow'.thrown = "none"
                    /\ actionRow'.built = total]_vars

\* C28: build() never returns a row without components.
C28_BuildNeverEmpty ==
    (actionRow.call = "build" /\ actionRow.thrown = "none") => actionRow.returned >= 1

\* the last characters of text are the ellipsis
EndsInEllipsis(text) ==
    /\ Len(text) >= Len(ELLIPSIS)
    /\ SubSeq(text, Len(text) - Len(ELLIPSIS) + 1, Len(text)) = ELLIPSIS

\* C29: truncate(text, limit) is never longer than limit: it is the text
\* when the text has at most limit characters and otherwise has exactly
\* limit characters, the last three of them the ellipsis.
C29_NeverLonger ==
    truncated.called =>
        /\ Len(truncated.result) <= truncated.limit
        /\ Len(truncated.text) <= truncated.limit => truncated.result = truncated.text
        /\ Len(truncated.text) > truncated.limit =>
               /\ Len(truncated.result) = truncated.limit
               /\ EndsInEllipsis(truncated.result)

(***************************************************************************)
(* Properties of InteractionService                                        *)
(***************************************************************************)
\* C35: the client has one listener of the service when isListening is
\* true and none when it is false, so an emitted interaction reaches
\* handleInteraction once while the service listens and not at all after
\* stop().
C35_ListenerBookkeeping ==
    /\ Len(dispatch.eventListeners) = IF dispatch.isListening THEN 1 ELSE 0
    /\ dispatch.call = "emit" =>
           dispatch.invoked =
               IF dispatch.isListening
               THEN HandlersInvoked(dispatch.handlers, dispatch.interaction)
               ELSE <<>>

\* C36: when the handler throws or the deadline check raises
\* InteractionTimeoutError, the error reply is attempted once if the
\* interaction was neither replied nor deferred at that time and not at all
\* otherwise; whether the reply is sent or fails, handleInteraction then
\* rejects with the error that was caught; a call that resolves attempts
\* no error reply.
C36_FailurePath ==
    /\ [](IF interactions.pc \in {"replying", "rejected"}
          THEN /\ interactions.error \in {"HandlerError", "InteractionTimeoutError"}
               /\ (interactions.error = "HandlerError") <=> (interactions.handler = "threw")
               /\ (interactions.error = "InteractionTimeoutError") =>
                      (interactions.handler = "returned" /\ ~interactions.acknowledged)
               /\ interactions.errorReplies = IF interactions.acknowledged THEN 0 ELSE 1
               /\ (interactions.pc = "replying") => ~interactions.acknowledged
          ELSE interactions.errorReplies = 0 /\ interactions.error = "none")
    /\ [][(interactions.pc = "replying" /\ interactions' # interactions) =>
              /\ interactions'.pc = "rejected"
              /\ interactions'.error = interactions.error
              /\ interactions'.errorReplies = interactions.errorReplies]_vars

\* the handler threw without having acknowledged, the one error reply
\* failed, and handleInteraction rejected with the handler's error
C36_Witness ==
    /\ interactions.pc = "rejected"
    /\ interactions.handler = "threw"
    /\ interactions.error = "HandlerError"
    /\ ~interactions.acknowledged
    /\ ~interactions.replied
    /\ interactions.errorReplies = 1

\* the handler that the calls of registerHandler and unregisterHandler
\* made so far leave for customId
RECURSIVE LatestRegistered(_, _)
LatestRegistered(log, customId) ==
    IF log = <<>> THEN NoHandler
    ELSE IF log[Len(log)].customId = customId THEN log[Len(log)].handler
    ELSE LatestRegistered(SubSeq(log, 1, Len(log) - 1), customId)

\* C37: handleInteraction invokes a handler only for a button interaction
\* whose customId has a handler registered at that time, and then the
\* handler registered last for that id, once; for an interaction that is
\* not a button, and for an id never registered or unregistered since, it
\* invokes no handler and returns.
C37_HandlerRouting ==
    dispatch.call = "handleInteraction" =>
        LET handler == LatestRegistered(dispatch.log, dispatch.interaction.customId)
        IN IF dispatch.interaction.isButton /\ handler # NoHandler
           THEN dispatch.invoked = <<handler>> /\ dispatch.result = "handler"
           ELSE dispatch.invoked = <<>> /\ dispatch.result = "resolved"

\* a button whose id was registered twice, with different handlers, is
\* routed to the second
C37_Witness ==
    /\ dispatch.call = "handleInteraction"
    /\ dispatch.interaction.isButton
    /\ Len(dispatch.log) >= 2
    /\ \E i \in 1..Len(dispatch.log) :
           \E j \in (i + 1)..Len(dispatch.log) :
               /\ dispatch.log[i].customId = dispatch.interaction.customId
               /\ dispatch.log[j].customId = dispatch.interaction.customId
               /\ dispatch.log[i].op = "register"
               /\ dispatch.log[j].op = "register"
               /\ dispatch.log[i].handler # dispatch.log[j].handler
               /\ dispatch.invoked = <<dispatch.log[j].handler>>

(***************************************************************************)
(* Properties of the message payload                                       *)
(***************************************************************************)
\* C38: building the payload leaves the MessageOptions as the caller
\* passed them, every attempt of the call sends the payload of the first
\* attempt, and the description of an embed with suppressAdultImages has
\* one warning prefix in every attempt.
C38_RepeatablePayload ==
    /\ embed.options = embed.original
    /\ \A i \in 1..Len(embed.payloads) :
           /\ embed.payloads[i] = embed.payloads[1]
           /\ (embed.original.suppressAdultImages /\ embed.original.description.kind = "text") =>
                  embed.payloads[i].description.warnings = 1

====
